---- MODULE Spec2Model ----
(***************************************************************************)
(* Block metadata synchronisation (pkg/storage/tsdb/block/fetcher.go) and  *)
(* the block upload protocol (pkg/compactor/block_upload.go).              *)
(***************************************************************************)
EXTENDS Integers, Sequences, FiniteSets, TLC

(* ------------------------------ bounds --------------------------------- *)
NumBlocks == 2
NumCallers == 2
MaxConcurrency == 2
MaxNow == 2
NumRequests == 2
MaxWrites == 2
MaxLevel == 2
MaxSeries == 3
MaxReqs == 3
MaxParallelism == 2
\* width in bits of the unsigned millisecond arithmetic (64 in the program)
TimeWidth == 4
\* the configured delays, in clock ticks
ConsistencyDelay == 1
DeletionMarkDelay == 0

(* ------------------------- program constants --------------------------- *)
TSDBVersion1 == 1

IDs == 1..NumBlocks
Callers == 1..NumCallers
Workers == 1..MaxConcurrency
Tenants == {"t1", "t2"}
FetchTenant == "t1"
Paths == {"index", "chunks/000001"}

VARIABLES
    bkt,            \* object store: bkt[tenant][id] = objects under <id>/
    now,            \* wall clock (ms)
    cacheDir,       \* BaseFetcher.cacheDir # ""
    concurrency,    \* BaseFetcher.concurrency
    filters,        \* MetaFetcher.filters
    cached,         \* BaseFetcher.cached
    disk,           \* <cacheDir>/<id>/meta.json
    sfKey,          \* singleflight.Group: leader of the call registered for key "", 0 if none
    sfDone,         \* the registered call has returned (wg.Done)
    sfVal,          \* the registered call's (val, err)
    pc,             \* position of each Fetch caller
    ctxDone,        \* the caller's context is cancelled
    got,            \* (v, err) a caller received from g.Do
    metas,          \* the caller's private copy of resp.metas
    fi,             \* index of the next filter to run
    ret,            \* observed: what Fetch returned to the caller
    iterPos,        \* next directory name bkt.Iter visits
    iterSt,         \* scheduler goroutine: "off", "run", "ok", "ctx", "err"
    ch,             \* channel of block ids
    chClosed,
    wk,             \* worker goroutines
    resp,           \* response under construction
    outcome,        \* observed: what loadMeta returned for each id in this scan
    staged,         \* TxGaugeVec staging buffer
    published,      \* TxGaugeVec published values
    deletionMarkMap,\* IgnoreDeletionMarkFilter.deletionMarkMap
    hist,           \* history: observations used to state the properties
    tracked,        \* the observations this specification records
    envStates,      \* envStates[id]: the states other writers may put block id in
    req,            \* upload API: the requests being served, one per connection
    metaWrites,     \* history: uploads of <id>/meta.json that succeeded, per tenant
    targets,        \* the (tenant, block) pairs the upload clients address
    clientMetas,    \* the request bodies the upload clients send to begin
    pureCall,       \* one application of a pure function: its inputs and results
    streamer,       \* querier: a SeriesStreamer, its buffering goroutine and its consumer
    doReq           \* query frontend: one doRequests call, its feeder and its workers

cfgv == <<cacheDir, concurrency, filters>>
sfv == <<sfKey, sfDone, sfVal>>
callv == <<pc, got, metas, fi, ret>>
scanv == <<iterPos, iterSt, ch, chClosed, wk, resp, outcome>>
gaugev == <<staged, published>>
histv == <<hist, tracked, envStates>>
querierv == <<streamer, doReq>>
upv == <<req, metaWrites, targets, clientMetas, pureCall, querierv>>
fetcherv == <<now, cfgv, cached, disk, sfv, callv, ctxDone, scanv, gaugev,
              deletionMarkMap, histv>>
fvars == <<bkt, now, cfgv, cached, disk, sfv, callv, ctxDone, scanv, gaugev,
           deletionMarkMap, histv>>

(* ------------------------------ objects -------------------------------- *)
NoObj == [kind |-> "none"]
Garbage == [kind |-> "garbage"]
NoLabels == [l \in {} |-> ""]
Meta(id, ver, src, lbls) ==
    [ulid |-> id, version |-> ver, source |-> src, labels |-> lbls, files |-> {}]
\* A descriptor that lists the files of its block (meta.Thanos.Files)
WithFiles(m, fs) == [m EXCEPT !.files = fs]
\* json.Encoder.Encode of a Meta
JsonEncode(m) == [kind |-> "json", val |-> m]
\* json.Unmarshal: the value, or an error for bytes that are not JSON
JsonDecode(obj) == IF obj.kind = "json" THEN [ok |-> TRUE, val |-> obj.val]
                   ELSE [ok |-> FALSE, val |-> Meta(0, 0, "", NoLabels)]

NoMeta == [kind |-> "nometa"]
NoMark == [kind |-> "none"]
EmptyBlock == [meta |-> NoObj, temp |-> NoObj, files |-> {}, mark |-> NoMark]
EmptyBucket == [t \in Tenants |-> [id \in IDs |-> EmptyBlock]]

B(bk, id) == bk[FetchTenant][id]
\* bkt.Iter at the root lists <id>/ when any object lives under it
DirExists(bk, id) == \/ B(bk, id).meta # NoObj \/ B(bk, id).temp # NoObj
                     \/ B(bk, id).files # {} \/ B(bk, id).mark # NoMark
\* id.Time(): the creation timestamp embedded in the ULID
IDTime(id) == id

Dom(m) == {id \in IDs : m[id] # NoMeta}
EmptyMetas == [id \in IDs |-> NoMeta]
EmptyResp == [metas |-> EmptyMetas, partial |-> [id \in IDs |-> "none"],
              metaErrs |-> {}, noMetas |-> 0, corruptedMetas |-> 0]
NoVal == [err |-> "none", resp |-> EmptyResp]
NoRet == [has |-> FALSE, metas |-> EmptyMetas, partial |-> [id \in IDs |-> "none"], err |-> "none"]
ZeroGauges == [failed |-> 0, nometa |-> 0, corrupted |-> 0, toofresh |-> 0,
               marked |-> 0, loaded |-> 0]
IdleWorker == [pc |-> "off", id |-> 0]

(* ------------------------ configuration and Init ----------------------- *)
FilterChains == {<<>>, <<"ConsistencyDelay">>, <<"IgnoreDeletionMark">>,
                 <<"ConsistencyDelay", "IgnoreDeletionMark">>}

\* Observations kept for stating properties; `tracked` selects the ones a
\* specification records.
NoHist == [cacheAtStart |-> [c \in Callers |-> EmptyMetas],
           diskAtScan |-> [c \in Callers |-> EmptyMetas],
           iterEnd |-> [c \in Callers |-> "off"],
           cancelled |-> [c \in Callers |-> FALSE],
           submitted |-> [c \in Callers |-> FALSE],
           tainted |-> {},
           shares |-> [c \in Callers |-> {c}]]
Track(f, new, old) == IF f \in tracked THEN new ELSE old
\* hist.shares[c]: the callers whose g.Do returned the response value caller c
\* holds.  Joined(sh, G): the callers in G now hold one response, the others
\* no longer share with them.
Joined(sh, G) == [p \in Callers |-> IF p \in G THEN G ELSE sh[p] \ G]

\* NewBaseFetcher / NewMetaFetcher: empty cache, no call in flight, zeroed gauges
FetcherInit(dirs, concs, chains, disks, obs, env) ==
    /\ bkt = EmptyBucket
    /\ tracked = obs
    /\ envStates = env
    /\ now = 0
    /\ cacheDir \in dirs
    /\ concurrency \in concs
    /\ filters \in chains
    /\ cached = EmptyMetas
    /\ disk \in disks
    /\ sfKey = 0 /\ sfDone = FALSE /\ sfVal = NoVal
    /\ pc = [c \in Callers |-> "idle"]
    /\ ctxDone = [c \in Callers |-> FALSE]
    /\ got = [c \in Callers |-> NoVal]
    /\ metas = [c \in Callers |-> EmptyMetas]
    /\ fi = [c \in Callers |-> 1]
    /\ ret = [c \in Callers |-> NoRet]
    /\ iterPos = [c \in Callers |-> 1]
    /\ iterSt = [c \in Callers |-> "off"]
    /\ ch = [c \in Callers |-> <<>>]
    /\ chClosed = [c \in Callers |-> FALSE]
    /\ wk = [c \in Callers |-> [w \in Workers |-> IdleWorker]]
    /\ resp = [c \in Callers |-> EmptyResp]
    /\ outcome = [c \in Callers |-> [id \in IDs |-> "none"]]
    /\ staged = ZeroGauges
    /\ published = ZeroGauges
    /\ deletionMarkMap = [id \in IDs |-> NoMark]
    /\ hist = NoHist

(* --------------------------- environment ------------------------------- *)
\* Other writers of the bucket (ingesters, compactors, the deleter) own the
\* blocks with envStates[id] # {}: they rewrite them at any time, so each read of
\* such a block observes any of those states.  A block with envStates[id] = {} is
\* written by the upload protocol alone and a read observes what bkt holds.
\* Seen(ids): the buckets one read of the blocks `ids` may observe.
Observed(id) == IF envStates[id] = {} THEN {bkt[FetchTenant][id]} ELSE envStates[id]
Seen(ids) ==
    {[bkt EXCEPT ![FetchTenant] = [i \in IDs |-> IF i \in ids THEN f[i] ELSE @[i]]] :
        f \in {g \in [ids -> UNION {Observed(i) : i \in ids}] :
                   \A i \in ids : g[i] \in Observed(i)}}

Tick ==
    /\ now < MaxNow
    /\ now' = now + 1
    /\ UNCHANGED <<upv, bkt, cfgv, cached, disk, sfv, callv, ctxDone, scanv, gaugev,
                   deletionMarkMap, histv>>

InFetch(c) == pc[c] \notin {"idle", "returned"}
OthersInFetch(c) == {p \in Callers \ {c} : InFetch(p)}

\* The caller of Fetch cancels the context it passed.
Cancel(c) ==
    /\ InFetch(c) /\ ~ctxDone[c]
    /\ ctxDone' = [ctxDone EXCEPT ![c] = TRUE]
    /\ UNCHANGED <<upv, bkt, now, cfgv, cached, disk, sfv, callv, scanv, gaugev,
                   deletionMarkMap, histv>>

(* ------------------------------ loadMeta ------------------------------- *)
BadFile == [kind |-> "badfile"]
OkKinds == {"cached", "disk", "fetched"}
NotFoundKinds == {"notfound", "gone"}

\* Mutation: a loaded meta is also entered in the partial map
RecordLoadBoth(r, id, kind, m) ==
    IF kind \in OkKinds THEN [r EXCEPT !.metas[id] = m, !.partial[id] = "notfound"]
    ELSE IF kind \in NotFoundKinds
         THEN [r EXCEPT !.noMetas = @ + 1, !.partial[id] = "notfound"]
    ELSE IF kind = "corrupted"
         THEN [r EXCEPT !.corruptedMetas = @ + 1, !.partial[id] = "corrupted"]
    ELSE [r EXCEPT !.metaErrs = @ \cup {id}]
\* Mutation: a missing meta.json is a real error
RecordLoadStrict(r, id, kind, m) ==
    IF kind \in OkKinds THEN [r EXCEPT !.metas[id] = m]
    ELSE IF kind = "corrupted"
         THEN [r EXCEPT !.corruptedMetas = @ + 1, !.partial[id] = "corrupted"]
    ELSE [r EXCEPT !.metaErrs = @ \cup {id}]
\* Mutation: a real error does not skip the partial map
RecordLoadNoContinue(r, id, kind, m) ==
    IF kind \in OkKinds THEN [r EXCEPT !.metas[id] = m]
    ELSE IF kind \in NotFoundKinds
         THEN [r EXCEPT !.noMetas = @ + 1, !.partial[id] = "notfound"]
    ELSE IF kind = "corrupted"
         THEN [r EXCEPT !.corruptedMetas = @ + 1, !.partial[id] = "corrupted"]
    ELSE [r EXCEPT !.metaErrs = @ \cup {id}, !.partial[id] = "error"]

\* Mutation: the merge is not under the mutex and drops what was merged before
RecordLoadOverwrite(r, id, kind, m) ==
    IF kind \in OkKinds THEN [EmptyResp EXCEPT !.metas[id] = m]
    ELSE IF kind \in NotFoundKinds
         THEN [EmptyResp EXCEPT !.noMetas = 1, !.partial[id] = "notfound"]
    ELSE IF kind = "corrupted"
         THEN [EmptyResp EXCEPT !.corruptedMetas = 1, !.partial[id] = "corrupted"]
    ELSE [EmptyResp EXCEPT !.metaErrs = {id}]

\* The worker's classification of loadMeta's result, merged into the response
\* under the mutex.
RecordLoad(r, id, kind, m) ==
    IF kind \in OkKinds THEN [r EXCEPT !.metas[id] = m]
    ELSE IF kind \in NotFoundKinds
         THEN [r EXCEPT !.noMetas = @ + 1, !.partial[id] = "notfound"]
    ELSE IF kind = "corrupted"
         THEN [r EXCEPT !.corruptedMetas = @ + 1, !.partial[id] = "corrupted"]
    ELSE [r EXCEPT !.metaErrs = @ \cup {id}]

\* Mutation: loadMeta without the version check
ParseMetaAnyVersion(obj) ==
    LET d == JsonDecode(obj) IN
    IF obj = NoObj THEN [kind |-> "gone", m |-> NoMeta]
    ELSE IF ~d.ok THEN [kind |-> "corrupted", m |-> NoMeta]
    ELSE [kind |-> "fetched", m |-> d.val]
\* What bkt.Get plus json.Unmarshal plus the version check make of meta.json.
ParseMeta(obj) ==
    LET d == JsonDecode(obj) IN
    IF obj = NoObj THEN [kind |-> "gone", m |-> NoMeta]
    ELSE IF ~d.ok THEN [kind |-> "corrupted", m |-> NoMeta]
    ELSE IF d.val.version # TSDBVersion1 THEN [kind |-> "badversion", m |-> NoMeta]
    ELSE [kind |-> "fetched", m |-> d.val]

Finish(c, w, id, kind, m) ==
    /\ resp' = [resp EXCEPT ![c] = RecordLoad(@, id, kind, m)]
    /\ outcome' = [outcome EXCEPT ![c][id] = Track("outcome", kind, @)]
    /\ wk' = [wk EXCEPT ![c][w] = [pc |-> "recv", id |-> 0]]

\* for id := range ch
WorkerRecv(c, w) ==
    /\ wk[c][w].pc = "recv"
    /\ \/ /\ ch[c] # <<>>
          /\ wk' = [wk EXCEPT ![c][w] = [pc |-> "exists", id |-> Head(ch[c])]]
          /\ ch' = [ch EXCEPT ![c] = Tail(@)]
       \/ /\ ch[c] = <<>> /\ chClosed[c]
          /\ wk' = [wk EXCEPT ![c][w] = [pc |-> "exit", id |-> 0]]
          /\ ch' = ch
    /\ UNCHANGED <<upv, bkt, now, cfgv, cached, disk, sfv, callv, ctxDone, iterPos, iterSt,
                   chClosed, resp, outcome, gaugev, deletionMarkMap, histv>>

\* loadMeta up to the bucket Get: bkt.Exists, the in-memory cache, the disk cache
WorkerExists(c, w) ==
    LET id == wk[c][w].id IN
    /\ wk[c][w].pc = "exists"
    /\ \E nb \in Seen({id}) :
       /\ \/ /\ Finish(c, w, id, "existserr", NoMeta) /\ disk' = disk
          \/ /\ B(nb, id).meta = NoObj
             /\ Finish(c, w, id, "notfound", NoMeta) /\ disk' = disk
          \/ /\ B(nb, id).meta # NoObj /\ cached[id] # NoMeta
             /\ Finish(c, w, id, "cached", cached[id]) /\ disk' = disk
          \/ /\ B(nb, id).meta # NoObj /\ cached[id] = NoMeta
             /\ cacheDir /\ disk[id] \notin {NoMeta, BadFile}
             /\ Finish(c, w, id, "disk", disk[id]) /\ disk' = disk
          \/ /\ B(nb, id).meta # NoObj /\ cached[id] = NoMeta
             /\ ~(cacheDir /\ disk[id] \notin {NoMeta, BadFile})
             /\ wk' = [wk EXCEPT ![c][w].pc = "get"]
             /\ \/ disk' = disk
                \/ cacheDir /\ disk[id] = BadFile /\ disk' = [disk EXCEPT ![id] = NoMeta]
             /\ UNCHANGED <<resp, outcome>>
    /\ UNCHANGED <<upv, bkt, now, cfgv, cached, sfv, callv, ctxDone, iterPos, iterSt,
                   ch, chClosed, gaugev, deletionMarkMap, histv>>

\* loadMeta from the bucket Get on: read, unmarshal, version check, disk write
WorkerGet(c, w) ==
    LET id == wk[c][w].id IN
    /\ wk[c][w].pc = "get"
    /\ \E nb \in Seen({id}) :
       LET p == ParseMeta(B(nb, id).meta) IN
       /\ \/ /\ Finish(c, w, id, "geterr", NoMeta) /\ disk' = disk
          \/ /\ Finish(c, w, id, p.kind, p.m)
             /\ \/ disk' = disk
                \/ cacheDir /\ p.kind = "fetched" /\ disk' = [disk EXCEPT ![id] = p.m]
    /\ UNCHANGED <<upv, bkt, now, cfgv, cached, sfv, callv, ctxDone, iterPos, iterSt,
                   ch, chClosed, gaugev, deletionMarkMap, histv>>

(* ------------------------- fetchMetadata: scheduler -------------------- *)
\* Mutation: the scan watches the contexts of the callers waiting on it too
ScanCtxDoneAny(c) == \E p \in Callers : (p = c \/ pc[p] = "waiting") /\ ctxDone[p]
\* ctx.Done() of the context fetchMetadata runs with: the closure handed to g.Do
\* captures the ctx of the caller that registered the call
ScanCtxDone(c) == ctxDone[c]
\* Mutation: the scheduler returns without closing the channel
CloseChNever(c) == chClosed
\* defer close(ch)
CloseCh(c) == [chClosed EXCEPT ![c] = TRUE]
\* One step of bkt.Iter(ctx, "", ...) with the callback that sends the id
IterStep(c) ==
    /\ iterSt[c] = "run"
    /\ \/ \* the bucket fails the listing
          /\ iterSt' = [iterSt EXCEPT ![c] = "err"]
          /\ chClosed' = CloseCh(c)
          /\ UNCHANGED <<iterPos, ch>>
       \/ \* ctx.Done() is selected, or Iter itself notices the cancelled context
          /\ ScanCtxDone(c)
          /\ iterSt' = [iterSt EXCEPT ![c] = "ctx"]
          /\ chClosed' = CloseCh(c)
          /\ UNCHANGED <<iterPos, ch>>
       \/ \* listing exhausted: Iter returns nil, the deferred close(ch) runs
          /\ iterPos[c] > NumBlocks
          /\ iterSt' = [iterSt EXCEPT ![c] = "ok"]
          /\ chClosed' = CloseCh(c)
          /\ UNCHANGED <<iterPos, ch>>
       \/ \* no directory of that name
          /\ iterPos[c] <= NumBlocks
          /\ \E nb \in Seen({iterPos[c]}) : ~DirExists(nb, iterPos[c])
          /\ iterPos' = [iterPos EXCEPT ![c] = @ + 1]
          /\ UNCHANGED <<iterSt, chClosed, ch>>
       \/ \* ch <- id, which blocks while the channel is full
          /\ iterPos[c] <= NumBlocks
          /\ \E nb \in Seen({iterPos[c]}) : DirExists(nb, iterPos[c])
          /\ Len(ch[c]) < concurrency
          /\ ch' = [ch EXCEPT ![c] = Append(@, iterPos[c])]
          /\ iterPos' = [iterPos EXCEPT ![c] = @ + 1]
          /\ UNCHANGED <<iterSt, chClosed>>
    /\ UNCHANGED <<upv, bkt, now, cfgv, cached, disk, sfv, callv, ctxDone, wk, resp, outcome,
                   gaugev, deletionMarkMap, histv>>

(* ------------------------------ singleflight --------------------------- *)
\* Mutation: the group never finds a registered call
SFNeverInFlight == FALSE
\* g.m[""] holds a call
SFInFlight == sfKey # 0

\* Mutation: the error of eg.Wait() is dropped
ScanResultAnyway(c) == [err |-> "none", resp |-> resp[c]]
\* The value fetchMetadata returns once eg.Wait() has returned
ScanResult(c) ==
    IF iterSt[c] # "ok" THEN [err |-> iterSt[c], resp |-> EmptyResp]
    ELSE [err |-> "none", resp |-> resp[c]]

\* Mutation: the cache is never replaced
CacheNeverUpdated(c) == cached
\* Mutation: the cache is replaced after an incomplete view too
CacheAlwaysUpdated(c) == IF iterSt[c] = "ok" THEN resp[c].metas ELSE cached
\* Only for complete view of blocks update the cache.
CacheAfterScan(c) ==
    IF iterSt[c] = "ok" /\ resp[c].metaErrs = {} THEN resp[c].metas ELSE cached

\* Mutation: the sweep runs after an incomplete view too
SweepableAlways(c) ==
    IF cacheDir /\ iterSt[c] = "ok"
    THEN {id \in IDs : disk[id] # NoMeta /\ resp[c].metas[id] = NoMeta}
    ELSE {}
\* Best effort cleanup of disk-cached metas: the entries the sweep may remove
Sweepable(c) ==
    IF cacheDir /\ iterSt[c] = "ok" /\ resp[c].metaErrs = {}
    THEN {id \in IDs : disk[id] # NoMeta /\ resp[c].metas[id] = NoMeta}
    ELSE {}

StartedScan(c) ==
    /\ iterPos' = [iterPos EXCEPT ![c] = 1]
    /\ iterSt' = [iterSt EXCEPT ![c] = "run"]
    /\ ch' = [ch EXCEPT ![c] = <<>>]
    /\ chClosed' = [chClosed EXCEPT ![c] = FALSE]
    /\ wk' = [wk EXCEPT ![c] = [w \in Workers |->
                 IF w <= concurrency THEN [pc |-> "recv", id |-> 0] ELSE IdleWorker]]
    /\ resp' = [resp EXCEPT ![c] = EmptyResp]
    /\ outcome' = [outcome EXCEPT ![c] = [id \in IDs |-> "none"]]

(* ------------------------- transactional gauges ------------------------ *)
\* TxGaugeVec.ResetTx: the staging buffer is cleared
TxResetTx == ZeroGauges
\* TxGaugeVec.Submit: the staging buffer becomes the published values
TxSubmit(st) == st

(* --------------------------------- fetch ------------------------------- *)
\* fetch entry: metrics.Syncs.Inc(), metrics.ResetTx()
FetchStart(c) ==
    /\ ~InFetch(c)
    /\ pc' = [pc EXCEPT ![c] = "started"]
    /\ ctxDone' = [ctxDone EXCEPT ![c] = FALSE]
    /\ got' = [got EXCEPT ![c] = NoVal]
    /\ metas' = [metas EXCEPT ![c] = EmptyMetas]
    /\ fi' = [fi EXCEPT ![c] = 1]
    /\ ret' = [ret EXCEPT ![c] = NoRet]
    /\ staged' = TxResetTx
    /\ hist' = [hist EXCEPT
                  !.cacheAtStart[c] = Track("cacheAtStart", cached, @),
                  !.iterEnd[c] = "off", !.cancelled[c] = FALSE, !.submitted[c] = FALSE,
                  !.tainted = Track("tainted",
                                    IF OthersInFetch(c) = {} THEN @ \ {c}
                                    ELSE @ \cup OthersInFetch(c) \cup {c}, @),
                  !.shares = Track("shares", Joined(@, {c}), @)]
    /\ outcome' = [outcome EXCEPT ![c] = [id \in IDs |-> "none"]]
    /\ UNCHANGED <<upv, bkt, now, cfgv, cached, disk, sfv, iterPos, iterSt, ch, chClosed, wk,
                   resp, published, deletionMarkMap, tracked, envStates>>

\* g.Do("", fn) when no call is registered: register one and run fetchMetadata
SFLead(c) ==
    /\ pc[c] = "started" /\ ~SFInFlight
    /\ sfKey' = c /\ sfDone' = FALSE /\ sfVal' = NoVal
    /\ pc' = [pc EXCEPT ![c] = "leading"]
    /\ StartedScan(c)
    /\ hist' = [hist EXCEPT !.diskAtScan[c] = Track("diskAtScan", disk, @)]
    /\ UNCHANGED <<upv, bkt, now, cfgv, cached, disk, ctxDone, got, metas, fi, ret, gaugev,
                   deletionMarkMap, tracked, envStates>>

\* g.Do("", fn) when a call is registered: wait for it, or take its value if it
\* has already returned
SFJoin(c) ==
    /\ pc[c] = "started" /\ SFInFlight
    /\ IF sfDone THEN /\ pc' = [pc EXCEPT ![c] = "have"]
                      /\ got' = [got EXCEPT ![c] = sfVal]
                      /\ hist' = [hist EXCEPT !.shares = Track("shares",
                                     Joined(@, @[sfKey] \cup {c}), @)]
       ELSE /\ pc' = [pc EXCEPT ![c] = "waiting"]
            /\ got' = got /\ hist' = hist
    /\ UNCHANGED <<upv, bkt, now, cfgv, cached, disk, sfv, ctxDone, metas, fi, ret, scanv,
                   gaugev, deletionMarkMap, tracked, envStates>>

\* eg.Wait() returns; the rest of fetchMetadata; the call's value is set and
\* wg.Done() wakes the callers waiting on it
ScanFinish(c) ==
    /\ pc[c] = "leading" /\ iterSt[c] \notin {"off", "run"}
    /\ \A w \in Workers : wk[c][w].pc \in {"off", "exit"}
    /\ cached' = CacheAfterScan(c)
    /\ \E R \in SUBSET Sweepable(c) :
          disk' = [id \in IDs |-> IF id \in R THEN NoMeta ELSE disk[id]]
    /\ sfVal' = ScanResult(c) /\ sfDone' = TRUE /\ sfKey' = sfKey
    /\ pc' = [p \in Callers |-> IF p = c THEN "release"
                                ELSE IF pc[p] = "waiting" THEN "have" ELSE pc[p]]
    /\ got' = [p \in Callers |-> IF p = c \/ pc[p] = "waiting" THEN ScanResult(c)
                                 ELSE got[p]]
    /\ iterSt' = [iterSt EXCEPT ![c] = "off"]
    /\ wk' = [wk EXCEPT ![c] = [w \in Workers |-> IdleWorker]]
    /\ iterPos' = [iterPos EXCEPT ![c] = 1]
    /\ ch' = [ch EXCEPT ![c] = <<>>]
    /\ chClosed' = [chClosed EXCEPT ![c] = FALSE]
    /\ resp' = [resp EXCEPT ![c] = EmptyResp]
    /\ hist' = [hist EXCEPT !.iterEnd[c] = Track("iterEnd", iterSt[c], @),
                            !.cancelled[c] = Track("cancelled", ctxDone[c], @),
                            !.shares = Track("shares",
                                Joined(@, {c} \cup {p \in Callers : pc[p] = "waiting"}), @)]
    /\ UNCHANGED <<upv, bkt, now, cfgv, ctxDone, metas, fi, ret, outcome, gaugev,
                   deletionMarkMap, tracked, envStates>>

\* the leader deletes the call from g.m and returns from g.Do
SFRelease(c) ==
    /\ pc[c] = "release"
    /\ sfKey' = IF sfKey = c THEN 0 ELSE sfKey
    /\ sfDone' = IF sfKey = c THEN FALSE ELSE sfDone
    /\ sfVal' = IF sfKey = c THEN NoVal ELSE sfVal
    /\ pc' = [pc EXCEPT ![c] = "have"]
    /\ UNCHANGED <<upv, bkt, now, cfgv, cached, disk, ctxDone, got, metas, fi, ret, scanv,
                   gaugev, deletionMarkMap, histv>>

(* -------------------------------- filters ------------------------------ *)
ExemptSources == {"bucket.repair", "compactor", "compactor.repair"}
\* ulid.Now()-id.Time() in unsigned arithmetic
Age(id, t) == (t - IDTime(id)) % (2 ^ TimeWidth)
TooFresh(id, m, t) == Age(id, t) < ConsistencyDelay /\ m.source \notin ExemptSources

\* Mutation: a too fresh block is removed without incrementing the gauge
ConsistencyDelayFilterUncounted(ms, t) ==
    LET gone == {id \in Dom(ms) : TooFresh(id, ms[id], t)} IN
    [metas |-> [id \in IDs |-> IF id \in gone THEN NoMeta ELSE ms[id]],
     toofresh |-> 0, marked |-> 0, err |-> FALSE,
     marks |-> deletionMarkMap]
\* ConsistencyDelayMetaFilter.Filter
ConsistencyDelayFilter(ms, t) ==
    LET gone == {id \in Dom(ms) : TooFresh(id, ms[id], t)} IN
    [metas |-> [id \in IDs |-> IF id \in gone THEN NoMeta ELSE ms[id]],
     toofresh |-> Cardinality(gone), marked |-> 0, err |-> FALSE,
     marks |-> deletionMarkMap]

\* Mutation: a mark as old as the delay already removes the block
MarkExpiredInclusive(bk, id, t) == t - B(bk, id).mark.deletionTime >= DeletionMarkDelay
\* metadata.ReadMarker of <id>/deletion-mark.json when the bucket answers
MarkReadable(bk, id) == B(bk, id).mark.kind = "mark"
MarkExpired(bk, id, t) == t - B(bk, id).mark.deletionTime > DeletionMarkDelay

\* Mutation: the map built from the probes that succeeded is installed even
\* when a probe failed
IgnoreDeletionMarkFilterBestEffort(bk, ms, t, probed, failed) ==
    LET seen == {id \in probed \ failed : MarkReadable(bk, id)}
        gone == {id \in seen : MarkExpired(bk, id, t)}
        bad == failed # {} \/ probed # Dom(ms) IN
    [metas |-> [id \in IDs |-> IF id \in gone THEN NoMeta ELSE ms[id]],
     toofresh |-> 0, marked |-> Cardinality(gone), err |-> bad,
     marks |-> [id \in IDs |-> IF id \in seen THEN B(bk, id).mark ELSE NoMark]]

\* IgnoreDeletionMarkFilter.Filter: `probed` are the ids the scheduler handed to
\* the workers, `failed` those whose probe ended in a bucket error
IgnoreDeletionMarkFilter(bk, ms, t, probed, failed) ==
    LET seen == {id \in probed \ failed : MarkReadable(bk, id)}
        gone == {id \in seen : MarkExpired(bk, id, t)}
        bad == failed # {} \/ probed # Dom(ms) IN
    [metas |-> [id \in IDs |-> IF id \in gone THEN NoMeta ELSE ms[id]],
     toofresh |-> 0, marked |-> Cardinality(gone), err |-> bad,
     marks |-> IF bad THEN deletionMarkMap
               ELSE [id \in IDs |-> IF id \in seen THEN B(bk, id).mark ELSE NoMark]]

\* v, err := f.g.Do(...) has returned: the error return, or the copy of
\* resp.metas and the three gauges set from the response
FetchGot(c) ==
    /\ pc[c] = "have"
    /\ IF got[c].err # "none"
       THEN /\ pc' = [pc EXCEPT ![c] = "returned"]
            /\ ret' = [ret EXCEPT ![c] = Track("ret", [has |-> FALSE, metas |-> EmptyMetas,
                          partial |-> [id \in IDs |-> "none"], err |-> got[c].err], @)]
            /\ got' = [got EXCEPT ![c] = NoVal]
            /\ UNCHANGED <<metas, staged>>
       ELSE /\ pc' = [pc EXCEPT ![c] = "filter"]
            /\ metas' = [metas EXCEPT ![c] = got[c].resp.metas]
            /\ staged' = [staged EXCEPT !.failed = Cardinality(got[c].resp.metaErrs),
                                        !.nometa = got[c].resp.noMetas,
                                        !.corrupted = got[c].resp.corruptedMetas]
            /\ UNCHANGED <<ret, got>>
    /\ UNCHANGED <<upv, bkt, now, cfgv, cached, disk, sfv, ctxDone, fi, scanv, published,
                   deletionMarkMap, histv>>

\* Mutation: fetch hands the filters resp.metas itself
MapHoldersShared(c) == hist.shares[c]
\* fetch copies resp.metas into a map of its own before the filters run and
\* returns that map: MapHolders(c) are the callers that hold the map caller c
\* filters and receives
MapHolders(c) == {c}
\* delete(metas, id) for the ids in `gone`, seen by every holder of the map
DeleteFrom(c, ms, rs, gone) ==
    [metas |-> [p \in Callers |->
                   IF p \in MapHolders(c) /\ pc[p] = "filter"
                   THEN [id \in IDs |-> IF id \in gone THEN NoMeta ELSE ms[p][id]]
                   ELSE ms[p]],
     ret |-> [p \in Callers |->
                   IF p \in MapHolders(c) /\ pc[p] = "returned" /\ rs[p].has
                   THEN [rs[p] EXCEPT !.metas = [id \in IDs |-> IF id \in gone THEN NoMeta
                                                                 ELSE @[id]]]
                   ELSE rs[p]]]

FilterOutcomes(c, bk) ==
    IF filters[fi[c]] = "ConsistencyDelay"
    THEN {ConsistencyDelayFilter(metas[c], now)}
    ELSE {IgnoreDeletionMarkFilter(bk, metas[c], now, x[1], x[2]) :
            x \in {x \in (SUBSET Dom(metas[c])) \X (SUBSET Dom(metas[c])) :
                           /\ x[2] \subseteq x[1]
                           /\ (x[1] # Dom(metas[c]) => ctxDone[c])}}

\* for _, filter := range filters
RunFilter(c) ==
    /\ pc[c] = "filter" /\ fi[c] <= Len(filters)
    /\ \E nb \in Seen(Dom(metas[c])) : \E r \in FilterOutcomes(c, nb) :
          /\ staged' = [staged EXCEPT !.toofresh = @ + r.toofresh,
                                      !.marked = @ + r.marked]
          /\ deletionMarkMap' = r.marks
          /\ IF r.err
             THEN /\ pc' = [pc EXCEPT ![c] = "returned"]
                  /\ ret' = [ret EXCEPT ![c] = Track("ret", [has |-> FALSE, metas |-> EmptyMetas,
                                partial |-> [id \in IDs |-> "none"], err |-> "filter"], @)]
                  /\ got' = [got EXCEPT ![c] = NoVal]
                  /\ metas' = [metas EXCEPT ![c] = EmptyMetas]
                  /\ fi' = [fi EXCEPT ![c] = 1]
             ELSE /\ LET d == DeleteFrom(c, metas, ret, Dom(metas[c]) \ Dom(r.metas)) IN
                     metas' = d.metas /\ ret' = d.ret
                  /\ fi' = [fi EXCEPT ![c] = @ + 1]
                  /\ UNCHANGED <<pc, got>>
    /\ UNCHANGED <<upv, bkt, now, cfgv, cached, disk, sfv, ctxDone, scanv, published, histv>>

\* Mutation: the loaded gauge is left as staged
LoadedGaugeUnset(c) == staged.loaded
\* The value of the loaded gauge fetch sets before Submit
LoadedGauge(c) == Cardinality(Dom(metas[c]))

FetchErrNone(c) == "none"
\* The error fetch returns along with the maps
FetchErr(c) == IF got[c].resp.metaErrs # {} THEN "incomplete" ELSE "none"

\* Set(loaded), metrics.Submit(), and the return of the maps
FetchSubmit(c) ==
    /\ pc[c] = "filter" /\ fi[c] > Len(filters)
    /\ staged' = [staged EXCEPT !.loaded = LoadedGauge(c)]
    /\ published' = TxSubmit(staged')
    /\ pc' = [pc EXCEPT ![c] = "returned"]
    /\ ret' = [ret EXCEPT ![c] = Track("ret", [has |-> TRUE, metas |-> metas[c],
                  partial |-> got[c].resp.partial, err |-> FetchErr(c)], @)]
    /\ got' = [got EXCEPT ![c] = NoVal]
    /\ metas' = [metas EXCEPT ![c] = EmptyMetas]
    /\ fi' = [fi EXCEPT ![c] = 1]
    /\ hist' = [hist EXCEPT !.submitted[c] = Track("submitted", TRUE, @)]
    /\ UNCHANGED <<upv, bkt, now, cfgv, cached, disk, sfv, ctxDone, scanv, deletionMarkMap,
                   tracked, envStates>>

\* The caller of Fetch deletes an entry from the map it was returned
CallerDelete(c) ==
    /\ pc[c] = "returned" /\ ret[c].has
    /\ \E id \in Dom(ret[c].metas) :
          LET d == DeleteFrom(c, metas, ret, {id}) IN metas' = d.metas /\ ret' = d.ret
    /\ UNCHANGED <<upv, bkt, now, cfgv, cached, disk, sfv, pc, ctxDone, got, fi, scanv, gaugev,
                   deletionMarkMap, histv>>

(* ---------------------------- block upload ----------------------------- *)
NoTenant == ""
BadID == 0
Malformed == [kind |-> "malformed"]
TenantIDExternalLabel == "TenantIDExternalLabel"
CompactorShardIDExternalLabel == "CompactorShardIDExternalLabel"
IngesterIDExternalLabel == "IngesterIDExternalLabel"
DeprecatedShardIDExternalLabel == "DeprecatedShardIDExternalLabel"
ReqPaths == Paths \cup {"", "meta.json", "chunks/meta.json", "meta.json.temp",
                        "chunks/00A123"}
\* r.ContentLength: -1 when the length is unknown (chunked transfer), 0 for an
\* empty body; r.Body is never nil in a server handler
\* path.Base(pth)
PathBase(pth) == IF pth \in {"meta.json", "chunks/meta.json"} THEN "meta.json" ELSE pth
RePathMatchAny(pth) == TRUE
\* ^(index|chunks/\d{6})$
RePathMatch(pth) == pth \in Paths
UnknownLength == 0 - 1
ContentLengths == {UnknownLength, 0, 1}

Requests == 1..NumRequests
NoCall == [fn |-> "none"]
NoStreamer == [gpc |-> "none"]
NoDo == [pc |-> "none"]
QuerierIdle == streamer = NoStreamer /\ doReq = NoDo
NoReq == [op |-> "none", tenant |-> NoTenant, id |-> BadID, path |-> "", pc |-> "idle",
          meta |-> NoMeta, status |-> 0, len |-> 0]
UploadInit(tgts, bodies) ==
    /\ req = [r \in Requests |-> NoReq]
    /\ metaWrites = [t \in Tenants |-> [id \in IDs |-> 0]]
    /\ targets = tgts
    /\ clientMetas = bodies
    /\ pureCall = NoCall
    /\ QuerierIdle

\* http.Error / w.WriteHeader and the handler's return
Respond(r, code) ==
    req' = [req EXCEPT ![r] = Track("status",
                                    [req[r] EXCEPT !.pc = "idle", !.status = code,
                                         !.meta = IF req[r].op = "begin" THEN @ ELSE NoMeta],
                                    NoReq)]
Restrict(f, S) == [x \in S |-> f[x]]

sanitizeMetaTrusting(tenantID, blockID, meta) == [ok |-> TRUE, meta |-> meta]
sanitizeMetaRejectUnused(tenantID, blockID, meta) ==
    LET labelled == [l \in DOMAIN meta.labels \cup {TenantIDExternalLabel} |->
                        IF l = TenantIDExternalLabel THEN tenantID ELSE meta.labels[l]]
        unused == {IngesterIDExternalLabel, DeprecatedShardIDExternalLabel}
        rejLbls == DOMAIN labelled \ {TenantIDExternalLabel, CompactorShardIDExternalLabel}
        kept == [l \in DOMAIN labelled \ unused |-> labelled[l]]
    IN  IF rejLbls # {}
        THEN [ok |-> FALSE, meta |-> [meta EXCEPT !.ulid = blockID, !.labels = kept]]
        ELSE [ok |-> TRUE,
              meta |-> [meta EXCEPT !.ulid = blockID, !.labels = kept, !.source = "upload"]]
\* sanitizeMeta: the meta as the function leaves it, and whether it returned nil
sanitizeMeta(tenantID, blockID, meta) ==
    LET labelled == [l \in DOMAIN meta.labels \cup {TenantIDExternalLabel} |->
                        IF l = TenantIDExternalLabel THEN tenantID ELSE meta.labels[l]]
        unused == {IngesterIDExternalLabel, DeprecatedShardIDExternalLabel}
        rejLbls == DOMAIN labelled \ ({TenantIDExternalLabel, CompactorShardIDExternalLabel}
                                       \cup unused)
        kept == Restrict(labelled, DOMAIN labelled \ unused)
    IN  IF rejLbls # {}
        THEN [ok |-> FALSE, meta |-> [meta EXCEPT !.ulid = blockID, !.labels = kept]]
        ELSE [ok |-> TRUE,
              meta |-> [meta EXCEPT !.ulid = blockID, !.labels = kept, !.source = "upload"]]

\* uploadMeta: the bucket after json.Encode and bkt.Upload to <blockID>/<name>
uploadMeta(bk, meta, blockID, tenantID, name) ==
    [bk EXCEPT ![tenantID][blockID][name] = JsonEncode(meta)]

\* HandleBlockUpload: a begin or commit request arrives and is dispatched; a
\* begin carries the client's meta.json as its body
HandleBlockUpload(r) ==
    /\ req[r].pc = "idle"
    /\ \E op \in {"begin", "commit"}, t \in Tenants \cup {NoTenant}, id \in IDs \cup {BadID} :
          /\ (t # NoTenant /\ id # BadID) => <<t, id>> \in targets
          /\ IF id = BadID \/ t = NoTenant
             THEN req' = [req EXCEPT ![r] = Track("status", [NoReq EXCEPT !.op = op, !.tenant = t,
                                                 !.id = id, !.status = 400], NoReq)]
             ELSE \E body \in IF op = "begin" THEN clientMetas \cup {Malformed} ELSE {NoMeta} :
                    req' = [req EXCEPT ![r] = [NoReq EXCEPT !.op = op, !.tenant = t, !.id = id,
                               !.meta = body,
                               !.pc = IF op = "commit" THEN "get" ELSE "exists"]]
    /\ UNCHANGED <<bkt, metaWrites, targets, clientMetas, pureCall, querierv, fetcherv>>

BlockExistsNever(bk, t, id) == FALSE
\* bkt.Exists(<blockID>/meta.json) when the bucket answers
BlockExists(bk, t, id) == bk[t][id].meta # NoObj

\* createBlockUpload: bkt.Exists(<blockID>/meta.json)
createBlockUploadExists(r) ==
    /\ req[r].op = "begin" /\ req[r].pc = "exists"
    /\ \/ Respond(r, 500)
       \/ BlockExists(bkt, req[r].tenant, req[r].id) /\ Respond(r, 409)
       \/ /\ ~BlockExists(bkt, req[r].tenant, req[r].id)
          /\ req' = [req EXCEPT ![r].pc = "stage"]
    /\ UNCHANGED <<bkt, metaWrites, targets, clientMetas, pureCall, querierv, fetcherv>>

\* createBlockUpload: decode the body, sanitizeMeta, uploadMeta to meta.json.temp
createBlockUploadStage(r) ==
    /\ req[r].op = "begin" /\ req[r].pc = "stage"
    /\ LET body == req[r].meta IN
          IF body = Malformed THEN Respond(r, 400) /\ bkt' = bkt
          ELSE LET sm == sanitizeMeta(req[r].tenant, req[r].id, body) IN
               IF ~sm.ok THEN Respond(r, 400) /\ bkt' = bkt
               ELSE \/ Respond(r, 500) /\ bkt' = bkt
                    \/ /\ Respond(r, 200)
                       /\ bkt' = uploadMeta(bkt, sm.meta, req[r].id, req[r].tenant, "temp")
    /\ UNCHANGED <<metaWrites, targets, clientMetas, pureCall, querierv, fetcherv>>

\* completeBlockUpload: bkt.Get(<blockID>/meta.json.temp) and decode
completeBlockUploadGet(r) ==
    LET obj == bkt[req[r].tenant][req[r].id].temp IN
    /\ req[r].op = "commit" /\ req[r].pc = "get"
    /\ \/ Respond(r, 500)
       \/ /\ obj # NoObj /\ JsonDecode(obj).ok
          /\ req' = [req EXCEPT ![r].pc = "put", ![r].meta = JsonDecode(obj).val]
    /\ UNCHANGED <<bkt, metaWrites, targets, clientMetas, pureCall, querierv, fetcherv>>

\* completeBlockUpload: uploadMeta to meta.json
completeBlockUploadPut(r) ==
    /\ req[r].op = "commit" /\ req[r].pc = "put"
    /\ \/ Respond(r, 500) /\ UNCHANGED <<bkt, metaWrites>>
       \/ /\ bkt' = uploadMeta(bkt, req[r].meta, req[r].id, req[r].tenant, "meta")
          /\ metaWrites' = [metaWrites EXCEPT ![req[r].tenant][req[r].id] =
                               IF @ < MaxWrites THEN @ + 1 ELSE @]
          /\ req' = [req EXCEPT ![r].pc = "del", ![r].meta = NoMeta]
    /\ UNCHANGED <<targets, clientMetas, pureCall, querierv, fetcherv>>

bktDeleteNothing(bk, tenantID, blockID, name) == bk
\* bkt.Delete(<blockID>/<name>) when it succeeds
bktDelete(bk, tenantID, blockID, name) == [bk EXCEPT ![tenantID][blockID][name] = NoObj]

\* completeBlockUpload: bkt.Delete(<blockID>/meta.json.temp)
completeBlockUploadDelete(r) ==
    /\ req[r].op = "commit" /\ req[r].pc = "del"
    /\ \/ Respond(r, 500) /\ bkt' = bkt
       \/ /\ Respond(r, 200)
          /\ bkt' = bktDelete(bkt, req[r].tenant, req[r].id, "temp")
    /\ UNCHANGED <<metaWrites, targets, clientMetas, pureCall, querierv, fetcherv>>

\* UploadBlockFile: the request arrives and its parameters are validated
UploadBlockFile(r) ==
    /\ req[r].pc = "idle"
    /\ \E t \in Tenants \cup {NoTenant}, id \in IDs \cup {BadID}, pth \in ReqPaths,
          len \in ContentLengths :
          /\ (t # NoTenant /\ id # BadID) => <<t, id>> \in targets
          /\ IF \/ id = BadID \/ pth = "" \/ t = NoTenant \/ PathBase(pth) = "meta.json"
                \/ ~RePathMatch(pth) \/ len = 0
             THEN req' = [req EXCEPT ![r] = Track("status", [NoReq EXCEPT !.op = "file",
                                                 !.tenant = t, !.id = id, !.path = pth,
                                                 !.len = len, !.status = 400], NoReq)]
             ELSE req' = [req EXCEPT ![r] = [NoReq EXCEPT !.op = "file", !.tenant = t,
                              !.id = id, !.path = pth, !.len = len, !.pc = "exists"]]
    /\ UNCHANGED <<bkt, metaWrites, targets, clientMetas, pureCall, querierv, fetcherv>>

UploadStartedAlways(bk, t, id) == TRUE
\* bkt.Exists(<blockID>/meta.json.temp) when the bucket answers
UploadStarted(bk, t, id) == bk[t][id].temp # NoObj

\* UploadBlockFile: bkt.Exists(<blockID>/meta.json.temp)
UploadBlockFileExists(r) ==
    /\ req[r].op = "file" /\ req[r].pc = "exists"
    /\ \/ Respond(r, 500)
       \/ ~UploadStarted(bkt, req[r].tenant, req[r].id) /\ Respond(r, 400)
       \/ /\ UploadStarted(bkt, req[r].tenant, req[r].id)
          /\ req' = [req EXCEPT ![r].pc = "get"]
    /\ UNCHANGED <<bkt, metaWrites, targets, clientMetas, pureCall, querierv, fetcherv>>

\* UploadBlockFile: bkt.Get(<blockID>/meta.json.temp) and decode
UploadBlockFileGet(r) ==
    LET obj == bkt[req[r].tenant][req[r].id].temp IN
    /\ req[r].op = "file" /\ req[r].pc = "get"
    /\ \/ Respond(r, 500)
       \/ /\ obj # NoObj /\ JsonDecode(obj).ok
          /\ req' = [req EXCEPT ![r].pc = "put"]
    /\ UNCHANGED <<bkt, metaWrites, targets, clientMetas, pureCall, querierv, fetcherv>>

\* bkt.Upload(<blockID>/<pth>, body): the objects of the block afterwards
PutFile(blk, pth) ==
    IF pth = "meta.json" THEN [blk EXCEPT !.meta = Garbage]
    ELSE IF pth = "meta.json.temp" THEN [blk EXCEPT !.temp = Garbage]
    ELSE [blk EXCEPT !.files = @ \cup {pth}]

\* UploadBlockFile: bkt.Upload(<blockID>/<path>)
UploadBlockFilePut(r) ==
    /\ req[r].op = "file" /\ req[r].pc = "put"
    /\ \/ Respond(r, 502) /\ bkt' = bkt
       \/ /\ Respond(r, 200)
          /\ bkt' = [bkt EXCEPT ![req[r].tenant][req[r].id] = PutFile(@, req[r].path)]
    /\ UNCHANGED <<metaWrites, targets, clientMetas, pureCall, querierv, fetcherv>>

UploadStep(r) ==
    \/ HandleBlockUpload(r) \/ createBlockUploadExists(r) \/ createBlockUploadStage(r)
    \/ completeBlockUploadGet(r) \/ completeBlockUploadPut(r) \/ completeBlockUploadDelete(r)
    \/ UploadBlockFile(r) \/ UploadBlockFileExists(r) \/ UploadBlockFileGet(r)
    \/ UploadBlockFilePut(r)

(* ------------------------------- behaviour ----------------------------- *)
\* One caller's Fetch, without filters and without cancellation
SyncStep(c) ==
    \/ FetchStart(c) \/ SFLead(c) \/ IterStep(c)
    \/ (\E w \in Workers : WorkerRecv(c, w) \/ WorkerExists(c, w) \/ WorkerGet(c, w))
    \/ ScanFinish(c) \/ SFRelease(c) \/ FetchGot(c) \/ FetchSubmit(c)

\* States other writers leave a block of the fetcher's tenant in
IngestedBlock(id, ver) ==
    [meta |-> JsonEncode(Meta(id, ver, "ingester", NoLabels)), temp |-> NoObj,
     files |-> {"index"}, mark |-> NoMark]
PartialBlock == [EmptyBlock EXCEPT !.files = {"index"}]
BlockStates(id) == {EmptyBlock, PartialBlock, [PartialBlock EXCEPT !.meta = Garbage],
                    IngestedBlock(id, TSDBVersion1), IngestedBlock(id, TSDBVersion1 + 1)}

vars == <<fvars, upv>>

MarkedBlock(id, t) ==
    [IngestedBlock(id, TSDBVersion1) EXCEPT !.mark = [kind |-> "mark", deletionTime |-> t]]
DiskStates(id) == {NoMeta, BadFile, Meta(id, TSDBVersion1, "ingester", NoLabels)}

(* Concurrent callers of one MetaFetcher without filters; other writers own block 1 *)
NoUploads == UploadInit({}, {})
Init == NoUploads /\ FetcherInit({FALSE}, {1}, {<<>>}, {EmptyMetas}, {"tainted"},
                    [id \in IDs |-> IF id = 1
                                    THEN {EmptyBlock, PartialBlock, IngestedBlock(id, TSDBVersion1)}
                                    ELSE {}])
Next == \E c \in Callers : SyncStep(c) \/ SFJoin(c)
Spec == Init /\ [][Next]_vars

(* One caller, every block state, one or several workers, cancellation *)
InitSync == NoUploads /\ FetcherInit({FALSE}, 1..MaxConcurrency, {<<>>}, {EmptyMetas},
                        {"ret", "outcome", "iterEnd", "cancelled", "submitted"},
                        [id \in IDs |-> BlockStates(id)])
NextSync == SyncStep(1) \/ Cancel(1)
SpecSync == InitSync /\ [][NextSync]_vars

(* Concurrent callers of one MetaFetcher, each of which may cancel its context *)
InitCancel == NoUploads /\ FetcherInit({FALSE}, {1}, {<<>>}, {EmptyMetas},
                          {"ret", "iterEnd", "cancelled"},
                          [id \in IDs |-> IF id = 1 THEN {IngestedBlock(id, TSDBVersion1)}
                                          ELSE {}])
NextCancel == \E c \in Callers : SyncStep(c) \/ SFJoin(c) \/ Cancel(c)
SpecCancel == InitCancel /\ [][NextCancel]_vars

(* One caller that may cancel, under fair scheduling: every bucket call returns
   (a listing step, an Exists, a Get), every goroutine that can take a step does
   so eventually; the send on the channel and the receive from it are taken only
   when the channel allows them *)
InitLive == NoUploads /\ FetcherInit({FALSE}, 1..MaxConcurrency, {<<>>}, {EmptyMetas},
                        {"iterEnd", "cancelled"},
                        [id \in IDs |-> {PartialBlock, IngestedBlock(id, TSDBVersion1)}])
NextLive == SyncStep(1) \/ Cancel(1)
Fairness ==
    /\ WF_vars(IterStep(1) /\ iterSt'[1] # "err")
    /\ \A w \in Workers :
          WF_vars(WorkerRecv(1, w)) /\ WF_vars(WorkerExists(1, w)) /\ WF_vars(WorkerGet(1, w))
    /\ WF_vars(SFLead(1)) /\ WF_vars(ScanFinish(1)) /\ WF_vars(SFRelease(1))
    /\ WF_vars(FetchGot(1)) /\ WF_vars(FetchSubmit(1))
SpecLive == InitLive /\ [][NextLive]_vars /\ Fairness

(* One caller, the filter chains, deletion marks, the clock *)
InitFilters == NoUploads /\ FetcherInit({FALSE}, {1}, FilterChains, {EmptyMetas},
                           {"ret", "cacheAtStart"},
                           [id \in IDs |-> {EmptyBlock, IngestedBlock(id, TSDBVersion1),
                                            MarkedBlock(id, 0)}])
NextFilters == SyncStep(1) \/ RunFilter(1) \/ Tick
SpecFilters == InitFilters /\ [][NextFilters]_vars

(* Callers of one MetaFetcher with IgnoreDeletionMarkFilter, coalescing on its
   scans; each may delete entries from the map Fetch returned to it; the clock
   has advanced before the first Fetch *)
InitCopies == NoUploads /\ FetcherInit({FALSE}, {1}, {<<"IgnoreDeletionMark">>},
                          {EmptyMetas}, {"ret", "shares"},
                          [id \in IDs |-> IF id = 1
                                          THEN {IngestedBlock(id, TSDBVersion1), MarkedBlock(id, 0)}
                                          ELSE {}])
NextCopies ==
    \/ \E c \in Callers : SyncStep(c) \/ SFJoin(c) \/ RunFilter(c) \/ CallerDelete(c)
    \/ (\A c \in Callers : pc[c] = "idle") /\ Tick
SpecCopies == InitCopies /\ [][NextCopies]_vars

(* One MetaFetcher whose chain is ConsistencyDelayFilter followed by
   IgnoreDeletionMarkFilter, called again and again while other writers change
   the blocks and the clock advances *)
InitBins == NoUploads /\ FetcherInit({FALSE}, {1}, {<<"ConsistencyDelay", "IgnoreDeletionMark">>},
                        {EmptyMetas}, {"outcome", "ret"},
                        [id \in IDs |-> BlockStates(id) \cup {MarkedBlock(id, 0)}])
NextBins == SyncStep(1) \/ RunFilter(1) \/ Tick
SpecBins == InitBins /\ [][NextBins]_vars

(* One caller, a disk cache directory with whatever an earlier run left in it *)
DiskInits == {d \in [IDs -> UNION {DiskStates(id) : id \in IDs}] :
                 \A id \in IDs : d[id] \in DiskStates(id)}
InitDisk == NoUploads /\ FetcherInit({TRUE}, {1}, {<<>>}, DiskInits,
                        {"ret", "outcome", "diskAtScan"},
                        [id \in IDs |-> BlockStates(id)])
NextDisk == SyncStep(1)
SpecDisk == InitDisk /\ [][NextDisk]_vars

(* Upload clients on concurrent connections addressing one block; no sync *)
UploadLabels == {NoLabels, [l \in {CompactorShardIDExternalLabel} |-> "1_of_2"],
                 [l \in {IngesterIDExternalLabel} |-> "ingester-1"],
                 [l \in {TenantIDExternalLabel} |-> "t2"],
                 [l \in {TenantIDExternalLabel, DeprecatedShardIDExternalLabel} |-> "t1"],
                 [l \in {"foo"} |-> "bar"]}
UploadMetas == {WithFiles(Meta(2, TSDBVersion1, "", l), {"index"}) : l \in UploadLabels}
InitUpload == /\ UploadInit({<<"t1", 1>>}, UploadMetas)
              /\ FetcherInit({FALSE}, {1}, {<<>>}, {EmptyMetas}, {}, [id \in IDs |-> {}])
NextUpload == \E r \in Requests : UploadStep(r)
SpecUpload == InitUpload /\ [][NextUpload]_vars

\* One client connection issuing begin, uploadFile and commit requests one after
\* the other for one block; every bucket call may fail; the status of the last
\* answer is kept
UploadTargets == {<<"t2", 1>>}
InitUploadSeq ==
    /\ UploadInit(UploadTargets, UploadMetas)
    /\ FetcherInit({FALSE}, {1}, {<<>>}, {EmptyMetas}, {"status"}, [id \in IDs |-> {}])
NextUploadSeq == UploadStep(1)
SpecUploadSeq == InitUploadSeq /\ [][NextUploadSeq]_vars

\* One caller syncing a bucket whose contents do not change, with one or
\* several workers: each block is in one fixed state for the whole behaviour
FixedBuckets == {e \in [IDs -> {{b} : b \in UNION {BlockStates(id) : id \in IDs}}] :
                    \A id \in IDs : e[id] \subseteq BlockStates(id)}
InitFixed ==
    /\ NoUploads
    /\ \E e \in FixedBuckets :
          FetcherInit({FALSE}, 1..MaxConcurrency, {<<>>}, {EmptyMetas},
                      {"ret", "outcome", "iterEnd", "cacheAtStart"}, e)
NextFixed == SyncStep(1)
SpecFixed == InitFixed /\ [][NextFixed]_vars

\* One caller syncing with a filter chain while loads fail: blocks are ingested
\* with a good or an unrecognized version or marked for deletion, and every
\* bucket call may fail
InitIncomplete ==
    NoUploads /\ FetcherInit({FALSE}, {1}, FilterChains, {EmptyMetas},
                             {"ret", "outcome", "iterEnd"},
                             [id \in IDs |-> {IngestedBlock(id, TSDBVersion1),
                                              IngestedBlock(id, TSDBVersion1 + 1),
                                              MarkedBlock(id, 0)}])
NextIncomplete == SyncStep(1) \/ RunFilter(1) \/ Tick
SpecIncomplete == InitIncomplete /\ [][NextIncomplete]_vars

\* sanitizeMeta applied to a meta, and again to the meta it left behind
AllLabelNames == {TenantIDExternalLabel, CompactorShardIDExternalLabel,
                  IngesterIDExternalLabel, DeprecatedShardIDExternalLabel, "foo"}
SanitizeInputs ==
    {[fn |-> "sanitizeMeta", stage |-> 0, tenant |-> t, id |-> id,
      meta |-> WithFiles(Meta(u, TSDBVersion1, src,
                              [l \in ls |-> IF l = TenantIDExternalLabel THEN tl ELSE "v"]),
                         {"index"})] :
        t \in Tenants, id \in IDs, u \in IDs, src \in {"", "upload", "ingester"},
        tl \in Tenants, ls \in SUBSET AllLabelNames}
InitSanitize ==
    /\ req = [r \in Requests |-> NoReq]
    /\ metaWrites = [t \in Tenants |-> [id \in IDs |-> 0]]
    /\ targets = {} /\ clientMetas = {}
    /\ pureCall \in SanitizeInputs
    /\ QuerierIdle
    /\ FetcherInit({FALSE}, {1}, {<<>>}, {EmptyMetas}, {}, [id \in IDs |-> {}])
SanitizeOnce ==
    /\ pureCall.stage = 0
    /\ pureCall' = [fn |-> pureCall.fn, stage |-> 1, tenant |-> pureCall.tenant,
                    id |-> pureCall.id, meta |-> pureCall.meta,
                    once |-> sanitizeMeta(pureCall.tenant, pureCall.id, pureCall.meta)]
    /\ UNCHANGED <<bkt, req, metaWrites, targets, clientMetas, querierv, fetcherv>>
SanitizeTwice ==
    /\ pureCall.stage = 1
    /\ pureCall' = [fn |-> pureCall.fn, stage |-> 2, tenant |-> pureCall.tenant,
                    id |-> pureCall.id, meta |-> pureCall.meta, once |-> pureCall.once,
                    twice |-> sanitizeMeta(pureCall.tenant, pureCall.id,
                                           pureCall.once.meta)]
    /\ UNCHANGED <<bkt, req, metaWrites, targets, clientMetas, querierv, fetcherv>>
NextSanitize == SanitizeOnce \/ SanitizeTwice
SpecSanitize == InitSanitize /\ [][NextSanitize]_vars

\* Single calls of the filters and of the compactor's job functions: the initial
\* state holds the arguments of one call, the call's action adds its results
PureInit(inputs) ==
    /\ req = [r \in Requests |-> NoReq]
    /\ metaWrites = [t \in Tenants |-> [id \in IDs |-> 0]]
    /\ targets = {} /\ clientMetas = {}
    /\ pureCall \in inputs
    /\ QuerierIdle
    /\ FetcherInit({FALSE}, {1}, {<<>>}, {EmptyMetas}, {}, [id \in IDs |-> {}])
PureDone(out) ==
    /\ pureCall.stage = 0
    /\ pureCall' = [pureCall EXCEPT !.stage = 1, !.out = out]
    /\ UNCHANGED <<bkt, req, metaWrites, targets, clientMetas, querierv, fetcherv>>

\* ConsistencyDelayMetaFilter.Filter on maps of metas of every source, at clock
\* readings before, at and after the times embedded in the block ids
Sources == ExemptSources \cup {"ingester", "upload"}
MetaMaps(srcs) ==
    [IDs -> {NoMeta} \cup {Meta(id, TSDBVersion1, src, NoLabels) : id \in IDs, src \in srcs}]
DelayInputs ==
    {[fn |-> "ConsistencyDelayFilter", stage |-> 0, metas |-> ms, now |-> t, out |-> NoMeta] :
        ms \in {x \in MetaMaps(Sources) : \A id \in Dom(x) : x[id].ulid = id},
        t \in 0..MaxNow + 1}
ApplyConsistencyDelay ==
    /\ pureCall.fn = "ConsistencyDelayFilter"
    /\ PureDone(ConsistencyDelayFilter(pureCall.metas, pureCall.now))

\* IgnoreDeletionMarkFilter.Filter on buckets whose blocks carry no mark, an
\* unparseable mark or a mark of some deletion time; `failed` are the probes
\* the bucket fails, `probed` the ids handed out before a cancellation
PartialMark == [kind |-> "partial"]
Marks == {NoMark, PartialMark} \cup {[kind |-> "mark", deletionTime |-> d] : d \in 0..MaxNow}
MarkedBuckets ==
    {[EmptyBucket EXCEPT ![FetchTenant] = [id \in IDs |-> [EmptyBlock EXCEPT !.mark = mk[id]]]] :
        mk \in [IDs -> Marks]}
MarkInputs ==
    {x \in {[fn |-> "IgnoreDeletionMarkFilter", stage |-> 0, bkt |-> bk, metas |-> ms,
             now |-> t, probed |-> p, failed |-> f, out |-> NoMeta] :
               bk \in MarkedBuckets,
               ms \in {m \in MetaMaps({"ingester"}) : \A id \in Dom(m) : m[id].ulid = id},
               t \in 0..MaxNow + 1, p \in SUBSET IDs, f \in SUBSET IDs} :
        x.failed \subseteq x.probed /\ x.probed \subseteq Dom(x.metas)}
ApplyIgnoreDeletionMark ==
    /\ pureCall.fn = "IgnoreDeletionMarkFilter"
    /\ pureCall.failed \subseteq pureCall.probed /\ pureCall.probed \subseteq Dom(pureCall.metas)
    /\ PureDone(IgnoreDeletionMarkFilter(pureCall.bkt, pureCall.metas, pureCall.now,
                                         pureCall.probed, pureCall.failed))

(* The compactor's Job and its readiness gate.  job.go is not among the sources:
   Job, AppendMeta, MinCompactionLevel and jobWaitPeriodElapsed follow the
   specification's sections 4.F and 4.G. *)
JobMeta(id, lvl) == [ulid |-> id, level |-> lvl]
\* no meta yet: the cached level is unset
NewJob == [metas |-> <<>>, minCompactionLevel |-> 0]
\* Mutation: the cached level is that of the meta appended last
AppendMetaLast(job, meta) ==
    [metas |-> Append(job.metas, meta), minCompactionLevel |-> meta.level]
\* AppendMeta: min(existing, newMeta.level)
AppendMeta(job, meta) ==
    [metas |-> Append(job.metas, meta),
     minCompactionLevel |-> IF job.metas = <<>>
                               \/ meta.level < job.minCompactionLevel
                            THEN meta.level ELSE job.minCompactionLevel]
MinCompactionLevel(job) == job.minCompactionLevel

\* The answer of the gate: elapsed, the meta returned, whether an error is
\* returned, and the ids whose attributes were probed, in order
GateResult(el, m, e, p) == [elapsed |-> el, meta |-> m, err |-> e, probed |-> p]
RECURSIVE WaitScanAllLevels(_, _, _, _, _)
\* Mutation: metas of every compaction level are probed
WaitScanAllLevels(ms, waitPeriod, lastModified, attrsErr, t) ==
    IF ms = <<>> THEN GateResult(TRUE, NoMeta, FALSE, <<>>)
    ELSE LET m == Head(ms)
             rest == WaitScanAllLevels(Tail(ms), waitPeriod, lastModified, attrsErr, t)
         IN  IF m.ulid \in attrsErr THEN GateResult(FALSE, m, TRUE, <<m.ulid>>)
             ELSE IF t - lastModified[m.ulid] < waitPeriod
                  THEN GateResult(FALSE, m, FALSE, <<m.ulid>>)
             ELSE [rest EXCEPT !.probed = <<m.ulid>> \o @]
RECURSIVE WaitScanPastErrors(_, _, _, _, _)
\* Mutation: a failed probe is skipped and the scan goes on
WaitScanPastErrors(ms, waitPeriod, lastModified, attrsErr, t) ==
    IF ms = <<>> THEN GateResult(TRUE, NoMeta, FALSE, <<>>)
    ELSE LET m == Head(ms)
             rest == WaitScanPastErrors(Tail(ms), waitPeriod, lastModified, attrsErr, t)
         IN  IF m.level # 1 THEN rest
             ELSE IF m.ulid \in attrsErr THEN [rest EXCEPT !.probed = <<m.ulid>> \o @]
             ELSE IF t - lastModified[m.ulid] < waitPeriod
                  THEN GateResult(FALSE, m, FALSE, <<m.ulid>>)
             ELSE [rest EXCEPT !.probed = <<m.ulid>> \o @]
RECURSIVE WaitScan(_, _, _, _, _)
\* for each meta of level 1, in order: probe attributes(<id>/meta.json); a
\* failed probe and a lastModified within the wait period end the scan
WaitScan(ms, waitPeriod, lastModified, attrsErr, t) ==
    IF ms = <<>> THEN GateResult(TRUE, NoMeta, FALSE, <<>>)
    ELSE LET m == Head(ms)
             rest == WaitScan(Tail(ms), waitPeriod, lastModified, attrsErr, t)
         IN  IF m.level # 1 THEN rest
             ELSE IF m.ulid \in attrsErr THEN GateResult(FALSE, m, TRUE, <<m.ulid>>)
             ELSE IF t - lastModified[m.ulid] < waitPeriod
                  THEN GateResult(FALSE, m, FALSE, <<m.ulid>>)
             ELSE [rest EXCEPT !.probed = <<m.ulid>> \o @]
\* Mutation: the gate probes also when the wait period is disabled
jobWaitPeriodElapsedAlwaysProbe(job, waitPeriod, lastModified, attrsErr, t) ==
    WaitScan(job.metas, waitPeriod, lastModified, attrsErr, t)
jobWaitPeriodElapsed(job, waitPeriod, lastModified, attrsErr, t) ==
    IF waitPeriod = 0 THEN GateResult(TRUE, NoMeta, FALSE, <<>>)
    ELSE WaitScan(job.metas, waitPeriod, lastModified, attrsErr, t)

\* A job is built by AppendMeta calls and then put to the gate, for every wait
\* period, upload time and set of failing probes
JobTimes == [IDs -> {MaxNow - 1, MaxNow}]
JobInputs ==
    {[fn |-> "Job", stage |-> 0, job |-> NewJob, waitPeriod |-> w, now |-> MaxNow,
      lastModified |-> lm, attrsErr |-> ae, out |-> NoMeta] :
        w \in 0..2, lm \in JobTimes, ae \in SUBSET IDs}
JobAppendMeta ==
    /\ pureCall.fn = "Job" /\ pureCall.stage = 0
    /\ \E id \in IDs \ {pureCall.job.metas[i].ulid : i \in DOMAIN pureCall.job.metas},
          lvl \in 1..MaxLevel :
          pureCall' = [pureCall EXCEPT !.job = AppendMeta(@, JobMeta(id, lvl))]
    /\ UNCHANGED <<bkt, req, metaWrites, targets, clientMetas, querierv, fetcherv>>
JobWaitPeriodElapsed ==
    /\ pureCall.fn = "Job"
    /\ PureDone(jobWaitPeriodElapsed(pureCall.job, pureCall.waitPeriod,
                                     pureCall.lastModified, pureCall.attrsErr,
                                     pureCall.now))

PureInputs == DelayInputs \cup MarkInputs \cup JobInputs
InitPure == PureInit(PureInputs)
NextPure ==
    \/ ApplyConsistencyDelay \/ ApplyIgnoreDeletionMark
    \/ JobAppendMeta \/ JobWaitPeriodElapsed
SpecPure == InitPure /\ [][NextPure]_vars

\* A client uploads a block of the fetcher's tenant and syncs, one request or
\* one Fetch at a time; no other writer touches the bucket
RoundTripMetas ==
    {WithFiles(Meta(2, v, "", l), {"index"}) :
        v \in {TSDBVersion1, TSDBVersion1 + 1},
        l \in {NoLabels, [n \in {CompactorShardIDExternalLabel} |-> "1_of_2"]}}
InitRoundTrip ==
    /\ UploadInit({<<FetchTenant, 1>>}, RoundTripMetas)
    /\ FetcherInit({FALSE}, {1}, {<<>>}, {EmptyMetas}, {"ret", "outcome", "iterEnd"},
                   [id \in IDs |-> {}])
NextRoundTrip ==
    \/ ~InFetch(1) /\ UploadStep(1)
    \/ req[1].pc = "idle" /\ SyncStep(1)
SpecRoundTrip == InitRoundTrip /\ [][NextRoundTrip]_vars

(* --------------------------- SeriesStreamer ---------------------------- *)
\* make(chan streamedIngesterSeries, 10)
BufferSize == 10
\* What client.Recv() yields, message by message: a series whose chunks convert,
\* or one for which chunkcompat.FromChunks fails; then the error that ends the
\* stream, io.EOF or another.  A message carries one series.
RECURSIVE SeqsUpTo(_, _)
SeqsUpTo(S, n) ==
    IF n = 0 THEN {<<>>}
    ELSE SeqsUpTo(S, n - 1) \cup
         {Append(q, x) : q \in {r \in SeqsUpTo(S, n - 1) : Len(r) = n - 1}, x \in S}
Streams ==
    SeqsUpTo({"series", "bad"}, MaxSeries) \cup {[i \in 1..(BufferSize + 1) |-> "series"]}
NoResult == [index |-> 0, res |-> "none"]
\* NewSeriesStreamer: no channel yet, nothing asked
NewSeriesStreamer(msgs, end) ==
    [gpc |-> "off", stream |-> msgs, end |-> end, n |-> Len(msgs),
     clean |-> end = "eof" /\ \A i \in DOMAIN msgs : msgs[i] = "series",
     nextSeriesIndex |-> 0,
     buffer |-> <<>>, bufClosed |-> FALSE, errChan |-> <<>>, errClosed |-> FALSE,
     errSent |-> FALSE, want |-> 0, last |-> NoResult]
\* StartBuffering: the channels are made and the goroutine is started
StartBuffering ==
    /\ streamer.gpc = "off"
    /\ streamer' = [streamer EXCEPT !.gpc = "recv"]
    /\ UNCHANGED <<bkt, req, metaWrites, targets, clientMetas, pureCall, doReq, fetcherv>>
\* The goroutine: client.Recv() and chunkcompat.FromChunks; an error other than
\* io.EOF goes to errChan, whose buffer of one always has room for it
StreamRecv ==
    /\ streamer.gpc = "recv"
    /\ streamer' =
          IF streamer.stream = <<>>
          THEN IF streamer.end = "eof" THEN [streamer EXCEPT !.gpc = "closeErr"]
               ELSE [streamer EXCEPT !.gpc = "closeErr", !.errSent = TRUE,
                                     !.errChan = Append(@, "err")]
          ELSE IF Head(streamer.stream) = "bad"
               THEN [streamer EXCEPT !.gpc = "closeErr", !.errSent = TRUE,
                                     !.errChan = Append(@, "err"), !.stream = Tail(@)]
               ELSE [streamer EXCEPT !.gpc = "send", !.stream = Tail(@)]
    /\ UNCHANGED <<bkt, req, metaWrites, targets, clientMetas, pureCall, doReq, fetcherv>>
\* The goroutine: s.buffer <- series, which blocks while the buffer is full
StreamSend ==
    /\ streamer.gpc = "send" /\ Len(streamer.buffer) < BufferSize
    /\ streamer' = [streamer EXCEPT !.gpc = "recv",
                                    !.buffer = Append(@, streamer.nextSeriesIndex),
                                    !.nextSeriesIndex = @ + 1]
    /\ UNCHANGED <<bkt, req, metaWrites, targets, clientMetas, pureCall, doReq, fetcherv>>
\* The goroutine returns: the deferred close(s.errChan), close(s.buffer) and
\* client.CloseSend() run in this order
StreamClose ==
    /\ streamer.gpc \in {"closeErr", "closeBuf", "closeSend"}
    /\ streamer' =
          IF streamer.gpc = "closeErr"
          THEN [streamer EXCEPT !.gpc = "closeBuf", !.errClosed = TRUE]
          ELSE IF streamer.gpc = "closeBuf"
          THEN [streamer EXCEPT !.gpc = "closeSend", !.bufClosed = TRUE]
          ELSE [streamer EXCEPT !.gpc = "done"]
    /\ UNCHANGED <<bkt, req, metaWrites, targets, clientMetas, pureCall, doReq, fetcherv>>
\* case err := <-s.errChan can proceed: a value is buffered or the channel is closed
ErrChanReady(st) == st.errChan # <<>> \/ st.errClosed
\* case series, open := <-s.buffer can proceed
BufferReady(st) == st.buffer # <<>> \/ st.bufClosed
\* GetChunks(seriesIndex): the select takes any case that can proceed; the
\* consumer asks for the indexes 0, 1, 2, ... in this order
GetChunks ==
    /\ streamer.gpc \notin {"none", "off"} /\ streamer.want <= streamer.n
    /\ \/ /\ ErrChanReady(streamer)
          /\ streamer' = [streamer EXCEPT
                            !.errChan = IF @ = <<>> THEN @ ELSE Tail(@),
                            !.last = [index |-> streamer.want, res |-> "failed"],
                            !.want = @ + 1]
       \/ /\ BufferReady(streamer)
          /\ streamer' = [streamer EXCEPT
                            !.buffer = IF @ = <<>> THEN @ ELSE Tail(@),
                            !.last = [index |-> streamer.want,
                                      res |-> IF streamer.buffer = <<>> THEN "closed"
                                              ELSE IF Head(streamer.buffer) # streamer.want
                                              THEN "mismatch" ELSE "chunks"],
                            !.want = @ + 1]
    /\ UNCHANGED <<bkt, req, metaWrites, targets, clientMetas, pureCall, doReq, fetcherv>>

InitStream ==
    /\ req = [r \in Requests |-> NoReq]
    /\ metaWrites = [t \in Tenants |-> [id \in IDs |-> 0]]
    /\ targets = {} /\ clientMetas = {} /\ pureCall = NoCall /\ doReq = NoDo
    /\ streamer \in {NewSeriesStreamer(m, e) : m \in Streams, e \in {"eof", "err"}}
    /\ FetcherInit({FALSE}, {1}, {<<>>}, {EmptyMetas}, {}, [id \in IDs |-> {}])
NextStream == StartBuffering \/ StreamRecv \/ StreamSend \/ StreamClose \/ GetChunks
SpecStream == InitStream /\ [][NextStream]_vars

(* ------------------------------ doRequests ----------------------------- *)
\* doRequests(ctx, downstream, reqs, maxParallelism) for a list of n sub-requests,
\* of which downstream fails those in `fails` whatever the context; once the
\* context is cancelled downstream may fail any request.  The three channels are
\* unbuffered: a send and its receive are one step.
DoWorkers == 1..MaxParallelism
Min(a, b) == IF a < b THEN a ELSE b
NewDo(n, fails, maxPar) ==
    [pc |-> "start", n |-> n, fails |-> fails, parallelism |-> Min(maxPar, n),
     next |-> 1, feeder |-> "off", closed |-> FALSE,
     wk |-> [w \in DoWorkers |-> [pc |-> "off", req |-> 0, ok |-> FALSE]],
     handed |-> [i \in 1..n |-> 0], cancelled |-> FALSE,
     resps |-> <<>>, errs |-> <<>>, firstErr |-> 0]
DoFrame == UNCHANGED <<bkt, req, metaWrites, targets, clientMetas, pureCall, streamer, fetcherv>>
\* the feeder and min(maxParallelism, len(reqs)) workers are started
DoStart ==
    /\ doReq.pc = "start"
    /\ doReq' = [doReq EXCEPT !.pc = "collect", !.feeder = "send",
                    !.wk = [w \in DoWorkers |->
                               IF w <= doReq.parallelism
                               THEN [pc |-> "recv", req |-> 0, ok |-> FALSE] ELSE @[w]]]
    /\ DoFrame
\* intermediate <- req in the feeder meets req := range intermediate in worker w
Feed(w) ==
    /\ doReq.feeder = "send" /\ doReq.next <= doReq.n
    /\ doReq.wk[w].pc = "recv"
    /\ doReq' = [doReq EXCEPT !.next = @ + 1, !.wk[w].pc = "do", !.wk[w].req = doReq.next]
    /\ DoFrame
\* close(intermediate) after the last request
FeederClose ==
    /\ doReq.feeder = "send" /\ doReq.next > doReq.n
    /\ doReq' = [doReq EXCEPT !.feeder = "done", !.closed = TRUE]
    /\ DoFrame
\* resp, err := downstream.Do(ctx, req)
WorkerDo(w) ==
    /\ doReq.wk[w].pc = "do"
    /\ \E ok \in {r \in BOOLEAN : /\ r => doReq.wk[w].req \notin doReq.fails
                                  /\ ~r => (doReq.wk[w].req \in doReq.fails
                                            \/ doReq.cancelled)} :
          doReq' = [doReq EXCEPT !.wk[w].pc = "send", !.wk[w].ok = ok,
                                 !.handed[doReq.wk[w].req] = @ + 1]
    /\ DoFrame
\* the range over the closed channel ends
WorkerExit(w) ==
    /\ doReq.wk[w].pc = "recv" /\ doReq.closed
    /\ doReq' = [doReq EXCEPT !.wk[w].pc = "exit"]
    /\ DoFrame
\* Mutation: the collecting loop ends at the first error
CollectDoneOnError(d) == Len(d.resps) + Len(d.errs) = d.n \/ d.firstErr # 0
\* for range reqs: one receive per sub-request
CollectDone(d) == Len(d.resps) + Len(d.errs) = d.n
\* the select of the collecting loop meets the send of worker w on respChan or
\* errChan; the first error cancels the context
Collect(w) ==
    /\ doReq.pc = "collect" /\ ~CollectDone(doReq)
    /\ doReq.wk[w].pc = "send"
    /\ doReq' = IF doReq.wk[w].ok
                THEN [doReq EXCEPT !.wk[w].pc = "recv",
                                   !.resps = Append(@, doReq.wk[w].req)]
                ELSE [doReq EXCEPT !.wk[w].pc = "recv",
                                   !.errs = Append(@, doReq.wk[w].req),
                                   !.cancelled = TRUE,
                                   !.firstErr = IF @ = 0 THEN doReq.wk[w].req ELSE @]
    /\ DoFrame
\* return resps, firstErr; the deferred cancel() runs
DoReturn ==
    /\ doReq.pc = "collect" /\ CollectDone(doReq)
    /\ doReq' = [doReq EXCEPT !.pc = "returned", !.cancelled = TRUE]
    /\ DoFrame

InitDo ==
    /\ req = [r \in Requests |-> NoReq]
    /\ metaWrites = [t \in Tenants |-> [id \in IDs |-> 0]]
    /\ targets = {} /\ clientMetas = {} /\ pureCall = NoCall /\ streamer = NoStreamer
    /\ doReq \in {NewDo(n, f, p) : n \in 0..MaxReqs, f \in SUBSET (1..MaxReqs),
                                   p \in 1..MaxParallelism}
    /\ \A i \in doReq.fails : i <= doReq.n
    /\ FetcherInit({FALSE}, {1}, {<<>>}, {EmptyMetas}, {}, [id \in IDs |-> {}])
NextDo ==
    \/ DoStart \/ FeederClose \/ DoReturn
    \/ \E w \in DoWorkers : Feed(w) \/ WorkerDo(w) \/ WorkerExit(w) \/ Collect(w)
\* Every goroutine that can take a step takes one eventually, and downstream
\* returns
DoFairness ==
    /\ WF_vars(DoStart) /\ WF_vars(FeederClose) /\ WF_vars(DoReturn)
    /\ \A w \in DoWorkers :
          /\ WF_vars(Feed(w)) /\ WF_vars(WorkerDo(w))
          /\ WF_vars(WorkerExit(w)) /\ WF_vars(Collect(w))
SpecDo == InitDo /\ [][NextDo]_vars /\ DoFairness

(* ------------------------------ properties ----------------------------- *)
Returned(c) == pc[c] = "returned"
ScanRunning(c) == iterSt[c] # "off"
PartialIDs(pm) == {id \in IDs : pm[id] # "none"}
RealErrKinds == {"existserr", "geterr", "badversion"}
\* The step in which fetch sets the loaded gauge, submits and returns the maps
SubmitStep(c) == pc[c] = "filter" /\ fi[c] > Len(filters) /\ pc'[c] = "returned"
\* The gauges of caller c's own Fetch, at its submit step
OwnGauges(g, c) ==
    /\ g.failed = Cardinality(got[c].resp.metaErrs)
    /\ g.nometa = got[c].resp.noMetas
    /\ g.corrupted = got[c].resp.corruptedMetas
    /\ g.loaded = Cardinality(Dom(metas[c]))
    /\ g.toofresh + g.marked
         = Cardinality(Dom(got[c].resp.metas)) - Cardinality(Dom(metas[c]))

\* At most one caller's fetchMetadata is running
C1_OneScan == Cardinality({c \in Callers : ScanRunning(c)}) <= 1
\* A caller waiting in g.Do runs no scan; the call it waits for does
C1_WaiterShares ==
    \A c \in Callers : pc[c] = "waiting" =>
        /\ sfKey \notin {0, c} /\ pc[sfKey] = "leading" /\ ScanRunning(sfKey)
        /\ ~ScanRunning(c)
\* A waiting caller leaves g.Do with the value the running scan returns
C1_Delivery ==
    \A c \in Callers : (pc[c] = "waiting" /\ pc'[c] # "waiting") =>
        /\ pc'[c] = "have" /\ got'[c] = ScanResult(sfKey)
        /\ ~ScanRunning(c)'
\* C1: at most one fetchMetadata runs per BaseFetcher; a Fetch that finds one in
\* flight starts no scan of its own, waits, and receives that scan's result.
C1_SingleFlight == [](C1_OneScan /\ C1_WaiterShares) /\ [][C1_Delivery]_vars
C1_Witness == \E c \in Callers : pc[c] = "waiting" /\ ScanRunning(sfKey) /\ wk[sfKey][1].pc = "get"

\* C2 as stated: after a Fetch that returns no error, for any filter chain, the
\* in-memory cache equals the meta map Fetch returned.
C2_Original ==
    \A c \in Callers : (Returned(c) /\ ret[c].has /\ ret[c].err = "none") =>
        cached = ret[c].metas
\* C2 amended: after a Fetch that returns no error the cache holds the unfiltered
\* map: every returned meta is the cached one, the cache has as many entries as
\* the loaded gauge plus the blocks the filters removed, and with an empty filter
\* chain the cache equals the returned map.
C2_CacheIsUnfiltered ==
    \A c \in Callers : (Returned(c) /\ ret[c].has /\ ret[c].err = "none") =>
        /\ \A id \in Dom(ret[c].metas) : cached[id] = ret[c].metas[id]
        /\ Cardinality(Dom(cached))
              = published.loaded + published.toofresh + published.marked
        /\ filters = <<>> => cached = ret[c].metas
C2_Witness ==
    \E c \in Callers : Returned(c) /\ ret[c].has /\ ret[c].err = "none"
        /\ Dom(ret[c].metas) # {} /\ Dom(ret[c].metas) # Dom(cached)

\* C3 as stated: after a Fetch that returns a transport error (the iteration
\* failed, a load failed with a real error, or a filter could not probe the
\* bucket) the cache equals its value before that Fetch started.
C3_Original ==
    \A c \in Callers : (Returned(c) /\ ret[c].err # "none") =>
        cached = hist.cacheAtStart[c]
\* C3 amended: after a Fetch whose scan failed (the iteration failed, or a load
\* failed with a real error) the cache equals its value before that Fetch
\* started.
C3_FailedScanKeepsCache ==
    \A c \in Callers : (Returned(c) /\ ret[c].err \in {"err", "ctx", "incomplete"}) =>
        cached = hist.cacheAtStart[c]
C3_Witness ==
    \E c \in Callers : Returned(c) /\ ret[c].err = "incomplete"
        /\ Dom(cached) # {} /\ Dom(ret[c].metas) # Dom(cached)

C4_Disjoint(ms, pm) == Dom(ms) \cap PartialIDs(pm) = {}
\* C4: the partial map and the meta map of one sync share no BlockID, in the
\* response under construction and in what Fetch returns; every BlockID of the
\* partial map is one whose load found meta.json absent or corrupt or ended in
\* an error.
C4_PartialDisjoint ==
    \A c \in Callers :
        /\ C4_Disjoint(resp[c].metas, resp[c].partial)
        /\ C4_Disjoint(got[c].resp.metas, got[c].resp.partial)
        /\ C4_Disjoint(ret[c].metas, ret[c].partial)
        /\ \A id \in PartialIDs(resp[c].partial) \cup PartialIDs(ret[c].partial) :
              outcome[c][id] \in NotFoundKinds \cup {"corrupted"} \cup RealErrKinds
C4_Witness ==
    \E c \in Callers : Returned(c) /\ ret[c].has
        /\ PartialIDs(ret[c].partial) # {} /\ Dom(ret[c].metas) # {}

\* The listing completed and no load of this sync ended in a real error
C5_Benign(c) ==
    /\ hist.iterEnd[c] = "ok"
    /\ \A id \in IDs : outcome[c][id] \notin RealErrKinds
\* C5: a block whose meta.json is absent, unparseable, or deleted between the
\* existence check and the read does not fail the sync: when the listing
\* completed and no load ended in a real error, Fetch returns without error, the
\* block is in the partial map and counted by the no-meta or corrupted gauge,
\* and every other block visited is in the returned meta map.
C5_MissingMetaTolerated ==
    \A c \in Callers : (Returned(c) /\ C5_Benign(c)) =>
        /\ ret[c].has /\ ret[c].err = "none"
        /\ \A id \in IDs :
            /\ outcome[c][id] \in NotFoundKinds => ret[c].partial[id] = "notfound"
            /\ outcome[c][id] = "corrupted" => ret[c].partial[id] = "corrupted"
            /\ outcome[c][id] \in OkKinds => ret[c].metas[id] # NoMeta
        /\ published.nometa = Cardinality({id \in IDs : outcome[c][id] \in NotFoundKinds})
        /\ published.corrupted = Cardinality({id \in IDs : outcome[c][id] = "corrupted"})
C5_Witness ==
    \E c \in Callers : Returned(c) /\ C5_Benign(c)
        /\ \E i, j \in IDs : outcome[c][i] = "gone" /\ outcome[c][j] = "fetched"

\* C6 as stated: a block whose meta.json parses but carries an unrecognized
\* version is absent from the meta map and appears in the partial map.
C6_Original ==
    \A c \in Callers : \A id \in IDs :
        (Returned(c) /\ ret[c].has /\ outcome[c][id] = "badversion") =>
            ret[c].metas[id] = NoMeta /\ ret[c].partial[id] # "none"
\* C6 amended: such a block is absent from the meta map and from the partial
\* map; it is a load failure, counted by the failed gauge, and Fetch returns the
\* maps together with the incomplete-view error.
C6_BadVersionIsFailure ==
    \A c \in Callers : \A id \in IDs :
        /\ outcome[c][id] = "badversion" =>
              resp[c].metas[id] = NoMeta /\ resp[c].partial[id] = "none"
        /\ (Returned(c) /\ hist.iterEnd[c] = "ok" /\ outcome[c][id] = "badversion") =>
              /\ ret[c].has /\ ret[c].err = "incomplete"
              /\ ret[c].metas[id] = NoMeta /\ ret[c].partial[id] = "none"
              /\ published.failed >= 1
C6_Witness ==
    \E c \in Callers : \E id \in IDs :
        Returned(c) /\ hist.iterEnd[c] = "ok" /\ outcome[c][id] = "badversion"

\* A load of this sync ended in a real error
C7_RealError(c) == \E id \in IDs : outcome[c][id] \in RealErrKinds
\* C7 as stated: with a disk cache directory, a sync in which a load ended in a
\* real error neither adds nor removes a disk-cache entry.
C7_Original ==
    \A c \in Callers : (Returned(c) /\ C7_RealError(c)) => disk = hist.diskAtScan[c]
\* C7 amended: such a sync removes or changes no readable disk-cache entry; the
\* only changes are the removal of an unreadable entry and the entry written for
\* a block whose meta.json the sync fetched from the bucket.
C7_ReadableEntriesKept ==
    \A c \in Callers : (Returned(c) /\ C7_RealError(c)) =>
        \A id \in IDs :
            /\ hist.diskAtScan[c][id] \notin {NoMeta, BadFile} =>
                  disk[id] = hist.diskAtScan[c][id]
            /\ disk[id] # hist.diskAtScan[c][id] =>
                  \/ hist.diskAtScan[c][id] = BadFile /\ disk[id] = NoMeta
                  \/ /\ outcome[c][id] = "fetched" /\ disk[id] \notin {NoMeta, BadFile}
                     /\ disk[id].ulid = id /\ disk[id].version = TSDBVersion1
C7_Witness ==
    \E c \in Callers : Returned(c) /\ C7_RealError(c)
        /\ \E i, j \in IDs : /\ hist.diskAtScan[c][i] = NoMeta /\ disk[i] # NoMeta
                              /\ hist.diskAtScan[c][j] \notin {NoMeta, BadFile}

C10_CommitPut(r, t, id) ==
    /\ req[r].op = "commit" /\ req[r].pc = "put" /\ req[r].tenant = t /\ req[r].id = id
    /\ req'[r].pc = "del"
\* meta.json was uploaded at most once
C10_WrittenOnce == \A t \in Tenants : \A id \in IDs : metaWrites[t][id] <= 1
\* meta.json changes only from absent, by a commit
C10_NeverChanges ==
    \A t \in Tenants : \A id \in IDs :
        bkt'[t][id].meta # bkt[t][id].meta =>
            /\ bkt[t][id].meta = NoObj
            /\ \E r \in Requests : C10_CommitPut(r, t, id)
\* C10 as stated: over any interleaving of begin, uploadFile and commit requests,
\* failed and retried ones included, <BlockID>/meta.json is written at most once,
\* only by commit, and its content never changes afterwards.
C10_Original == []C10_WrittenOnce /\ [][C10_NeverChanges]_vars

\* C11 as stated: whenever <BlockID>/meta.json exists as a result of begin,
\* uploadFile and commit requests, every file listed in the descriptor has been
\* uploaded under <BlockID>/.
C11_Original ==
    \A t \in Tenants : \A id \in IDs :
        (bkt[t][id].meta # NoObj /\ JsonDecode(bkt[t][id].meta).ok) =>
            JsonDecode(bkt[t][id].meta).val.files \subseteq bkt[t][id].files

\* The request in slot r takes a step
ReqStep(r) == req'[r] # req[r]
\* The request in slot r is answered with one of the given status codes
Answered(r, codes) == req'[r].pc = "idle" /\ req'[r].status \in codes

\* meta.json.temp, when present, is a descriptor that sanitizeMeta accepted:
\* only a begin answered 200 writes it
C12_TempOnlyFromBegin ==
    \A t \in Tenants : \A id \in IDs :
        bkt[t][id].temp # NoObj =>
            /\ JsonDecode(bkt[t][id].temp).ok
            /\ JsonDecode(bkt[t][id].temp).val.source = "upload"
C12_Step ==
    \A r \in Requests :
        (req[r].op = "file" /\ req[r].pc # "idle" /\ ReqStep(r)) =>
            LET blk == bkt[req[r].tenant][req[r].id] IN
            /\ bkt' # bkt => blk.temp # NoObj /\ Answered(r, {200})
            /\ (req[r].pc = "exists" /\ blk.temp = NoObj) =>
                   Answered(r, {400, 500}) /\ bkt' = bkt
\* The same for overlapping requests, where a commit may delete meta.json.temp
\* between the existence check and the upload
C12_StepOverlapping ==
    \A r \in Requests :
        (req[r].op = "file" /\ req[r].pc # "idle" /\ bkt' # bkt /\ ReqStep(r)) =>
            LET blk == bkt[req[r].tenant][req[r].id] IN
            blk.temp # NoObj \/ blk.meta # NoObj
C12_Overlapping == [][C12_StepOverlapping]_vars
ReturnStep(c) == pc[c] # "returned" /\ pc'[c] = "returned"
\* The block was begun and committed: meta.json present, meta.json.temp removed
Committed(t, id) == bkt[t][id].meta # NoObj /\ bkt[t][id].temp = NoObj
\* The bucket answered every call of caller c's scan
NoTransportError(c) ==
    hist.iterEnd[c] = "ok" /\ \A id \in IDs : outcome[c][id] \notin {"existserr", "geterr"}

C13_RoundTrip ==
    (ReturnStep(1) /\ Committed(FetchTenant, 1) /\ NoTransportError(1)') =>
        /\ ret'[1].err = "none"
        /\ 1 \in Dom(ret'[1].metas)
        /\ \E cm \in clientMetas :
              /\ sanitizeMeta(FetchTenant, 1, cm).ok
              /\ ret'[1].metas[1] = sanitizeMeta(FetchTenant, 1, cm).meta
\* C13 as stated: for every client meta that begin accepts with 200, begin,
\* uploadFile any number of times, commit (all 200) and then a sync with no
\* filters give a sync without error whose meta map holds the block with the
\* sanitized meta.
C13_Original == [][C13_RoundTrip]_vars
\* What the round trip does give: the committed descriptor is returned when
\* its version is the one loadMeta accepts
C13_RoundTripVersion1 ==
    [][(/\ ReturnStep(1) /\ Committed(FetchTenant, 1) /\ NoTransportError(1)'
        /\ JsonDecode(bkt[FetchTenant][1].meta).val.version = TSDBVersion1) =>
           /\ ret'[1].err = "none"
           /\ ret'[1].metas[1] = JsonDecode(bkt[FetchTenant][1].meta).val
           /\ ret'[1].metas[1].source = "upload" /\ ret'[1].metas[1].ulid = 1]_vars

C14_Step ==
    \A r \in Requests :
        (/\ req[r].op = "begin" /\ req[r].pc # "idle" /\ ReqStep(r)
         /\ bkt[req[r].tenant][req[r].id].meta # NoObj) =>
            /\ bkt' = bkt
            /\ req[r].pc = "exists" => Answered(r, {409, 500})
RecognizedLabels == {TenantIDExternalLabel, CompactorShardIDExternalLabel}
\* C15: the staged descriptor <BlockID>/meta.json.temp, which a begin answered
\* 200 writes, carries the BlockID of the request, the requesting tenant as its
\* tenant label whatever the client sent, source = upload, no deprecated label
\* and no label outside the recognized set.
C15_StagedIsSanitized ==
    \A t \in Tenants : \A id \in IDs :
        bkt[t][id].temp # NoObj =>
            LET d == JsonDecode(bkt[t][id].temp) IN
            /\ d.ok
            /\ d.val.ulid = id
            /\ TenantIDExternalLabel \in DOMAIN d.val.labels
            /\ d.val.labels[TenantIDExternalLabel] = t
            /\ d.val.source = "upload"
            /\ DOMAIN d.val.labels \subseteq RecognizedLabels
\* A begin staged a descriptor for block 1 of tenant t1 that kept the shard label
\* (every client meta names block 2, and some name tenant t2 or t1 with a
\* deprecated label)
C15_Witness ==
    /\ bkt["t1"][1].temp # NoObj
    /\ DOMAIN JsonDecode(bkt["t1"][1].temp).val.labels = RecognizedLabels
    /\ \A cm \in clientMetas : cm.ulid = 2 /\ cm.source = ""

\* C16: sanitizeMeta applied to the meta a first application left behind gives
\* the same meta and the same outcome (accepted or rejected), for every meta,
\* tenant and BlockID.
C16_Idempotent == pureCall.fn = "sanitizeMeta" /\ pureCall.stage = 2 =>
                      pureCall.twice = pureCall.once
\* Both applications ran on a meta that the first one changed: once on an
\* accepted meta, and (in another behaviour) on a rejected one
C16_Witness ==
    /\ pureCall.fn = "sanitizeMeta" /\ pureCall.stage = 2
    /\ pureCall.once.ok /\ pureCall.once.meta # pureCall.meta
    /\ IngesterIDExternalLabel \in DOMAIN pureCall.meta.labels
    /\ pureCall.meta.ulid # pureCall.id
C16_WitnessRejected ==
    /\ pureCall.fn = "sanitizeMeta" /\ pureCall.stage = 2
    /\ ~pureCall.once.ok /\ pureCall.once.meta # pureCall.meta

C17_Step ==
    \A r \in Requests :
        /\ (/\ req[r].pc = "idle" /\ ReqStep(r) /\ req'[r].op = "file"
            /\ req'[r].path \notin Paths) =>
               Answered(r, {400}) /\ bkt' = bkt
        /\ (req[r].op = "file" /\ req[r].pc # "idle" /\ ReqStep(r)) =>
               \A t \in Tenants : \A id \in IDs :
                   /\ bkt'[t][id].meta = bkt[t][id].meta
                   /\ bkt'[t][id].temp = bkt[t][id].temp
                   /\ bkt'[t][id].files \ bkt[t][id].files \subseteq Paths
                   /\ bkt'[t][id] # bkt[t][id] => t = req[r].tenant /\ id = req[r].id
\* C17: an uploadFile request whose path is not index or chunks/<six digits>
\* (meta.json and meta.json.temp included) is answered 400 on arrival and
\* writes nothing; the steps of an uploadFile request add objects only at index
\* or chunks/<six digits> of its own block and never create or change meta.json
\* or meta.json.temp.
C17_OnlyAllowedPaths == [][C17_Step]_vars
\* After a begin, an uploadFile for meta.json.temp was answered 400, and an
\* earlier one for index had been stored
C17_Witness ==
    /\ req[1].op = "file" /\ req[1].pc = "idle" /\ req[1].status = 400
    /\ req[1].path = "meta.json.temp" /\ req[1].tenant = "t2" /\ req[1].id = 1
    /\ bkt["t2"][1].temp # NoObj /\ bkt["t2"][1].files = {"index"}

\* meta.json is written before meta.json.temp is deleted: the step that removes
\* the staged descriptor finds meta.json present
C18_OrderStep ==
    \A t \in Tenants : \A id \in IDs :
        (bkt[t][id].temp # NoObj /\ bkt'[t][id].temp = NoObj) => bkt[t][id].meta # NoObj
C18_Order == [][C18_OrderStep]_vars
C18_Step ==
    \A r \in Requests :
        (req[r].op = "commit" /\ req[r].pc # "idle" /\ ReqStep(r) /\ Answered(r, {200})) =>
            LET t == req[r].tenant
                id == req[r].id
            IN  /\ bkt[t][id].temp # NoObj
                /\ bkt[t][id].meta = bkt[t][id].temp
                /\ bkt'[t][id].meta = bkt[t][id].meta
                /\ bkt'[t][id].temp = NoObj
\* C18: the step in which a commit answers 200 finds meta.json equal to the
\* staged descriptor in meta.json.temp, keeps meta.json and leaves meta.json.temp
\* absent; meta.json.temp is only ever removed when meta.json is present.
C18_CommitPublishes == [][C18_Step /\ C18_OrderStep]_vars
\* A commit was answered 200: the block is visible with a sanitized descriptor
C18_Witness ==
    /\ req[1].op = "commit" /\ req[1].pc = "idle" /\ req[1].status = 200
    /\ Committed("t2", 1)
    /\ JsonDecode(bkt["t2"][1].meta).val.source = "upload"

\* An orphan: meta.json was written and meta.json.temp is still there
Orphan(t, id) == bkt[t][id].meta # NoObj /\ bkt[t][id].temp # NoObj
C19_OrphanIsCopy ==
    \A t \in Tenants : \A id \in IDs : Orphan(t, id) => bkt[t][id].temp = bkt[t][id].meta
C19_Step ==
    \A r \in Requests :
        (/\ req[r].op = "commit" /\ req[r].pc # "idle" /\ ReqStep(r)
         /\ Orphan(req[r].tenant, req[r].id)) =>
            /\ bkt'[req[r].tenant][req[r].id].meta = bkt[req[r].tenant][req[r].id].meta
            /\ Answered(r, {200}) => bkt'[req[r].tenant][req[r].id].temp = NoObj
\* C19: when a commit wrote meta.json and stopped before deleting
\* meta.json.temp, the orphan is a copy of meta.json, and a later commit leaves
\* the content of meta.json as it was and, when it answers 200, has removed
\* meta.json.temp.
C19_RetryHarmless == []C19_OrphanIsCopy /\ [][C19_Step]_vars
\* A retried commit was answered 200 after meta.json had been written twice
C19_Witness ==
    /\ req[1].op = "commit" /\ req[1].pc = "idle" /\ req[1].status = 200
    /\ metaWrites["t2"][1] = 2 /\ Committed("t2", 1)

\* Caller c's scan listed the bucket to the end and some load ended in an error
\* that is neither not-found nor corrupted
RealErrors(c) == {id \in IDs : outcome[c][id] \in RealErrKinds}
IncompleteScan(c) == hist.iterEnd[c] = "ok" /\ RealErrors(c) # {}
Loaded(c) == {id \in IDs : outcome[c][id] \in OkKinds}
C20_Step ==
    \A c \in Callers :
        /\ (SubmitStep(c) /\ IncompleteScan(c)) =>
              /\ ret'[c].has /\ ret'[c].err = "incomplete"
              /\ ret'[c].metas = metas[c]
              /\ Dom(ret'[c].metas) \subseteq Loaded(c)
              /\ filters = <<>> => Dom(ret'[c].metas) = Loaded(c)
              /\ Cardinality(Dom(ret'[c].metas)) + staged.toofresh + staged.marked
                     = Cardinality(Loaded(c))
              /\ \A id \in IDs :
                    /\ outcome[c][id] \in NotFoundKinds => ret'[c].partial[id] = "notfound"
                    /\ outcome[c][id] = "corrupted" => ret'[c].partial[id] = "corrupted"
                    /\ outcome[c][id] \in RealErrKinds \cup OkKinds =>
                           ret'[c].partial[id] = "none"
              /\ published'.failed = Cardinality(RealErrors(c))
        /\ (ReturnStep(c) /\ IncompleteScan(c) /\ ~SubmitStep(c)) =>
              pc[c] = "filter" /\ ret'[c].err = "filter"
Recognized(ms) == \A id \in Dom(ms) : ms[id].version = TSDBVersion1
C21_WitnessCached ==
    Returned(1) /\ outcome[1][1] = "cached" /\ ret[1].metas[1] # NoMeta

\* The state block id is in throughout a behaviour of SpecFixed
FixedBlock(id) == CHOOSE b \in envStates[id] : TRUE
\* What loading block id gives when the bucket answers, from the bucket
\* contents and the cache the scan started with alone
ExpectedKind(c, id) ==
    IF FixedBlock(id) = EmptyBlock THEN "none"
    ELSE IF FixedBlock(id).meta = NoObj THEN "notfound"
    ELSE IF hist.cacheAtStart[c][id] # NoMeta THEN "cached"
    ELSE ParseMeta(FixedBlock(id).meta).kind
ExpectedMeta(c, id) ==
    IF ExpectedKind(c, id) = "cached" THEN hist.cacheAtStart[c][id]
    ELSE IF ExpectedKind(c, id) = "fetched" THEN ParseMeta(FixedBlock(id).meta).m
    ELSE NoMeta
\* C22: for the same bucket contents and the same starting cache, the meta map,
\* the keys of the partial map and the no-meta and corrupted counts a sync
\* returns are a function of those contents and that cache alone, so they are
\* the same with one worker and with several, whatever the interleaving (the
\* bucket answering every call).
C22_SameResult ==
    (Returned(1) /\ NoTransportError(1)) =>
        /\ ret[1].has
        /\ ret[1].metas = [id \in IDs |-> ExpectedMeta(1, id)]
        /\ PartialIDs(ret[1].partial) =
               {id \in IDs : ExpectedKind(1, id) \in {"notfound", "corrupted"}}
        /\ published.nometa = Cardinality({id \in IDs : ExpectedKind(1, id) = "notfound"})
        /\ published.corrupted =
               Cardinality({id \in IDs : ExpectedKind(1, id) = "corrupted"})
\* A sync with two workers returned a loaded block and a block without meta.json
C22_Witness ==
    /\ Returned(1) /\ NoTransportError(1) /\ concurrency = MaxConcurrency
    /\ ExpectedKind(1, 1) = "notfound" /\ ExpectedKind(1, 2) = "fetched"
    /\ ret[1].metas[2] # NoMeta /\ ret[1].partial[1] = "notfound"

\* The call of pureCall.fn has returned
Applied(fn) == pureCall.fn = fn /\ pureCall.stage = 1
\* C23 as stated: ConsistencyDelayFilter removes a meta if and only if its
\* source is not compactor, compactor-repair or bucket-repair and the current
\* time minus the time embedded in its id is less than the delay, also for an
\* embedded time later than the clock; each removal adds one to too-fresh.
C23_Original ==
    Applied("ConsistencyDelayFilter") =>
        LET gone == {id \in Dom(pureCall.metas) :
                        /\ pureCall.metas[id].source \notin ExemptSources
                        /\ pureCall.now - IDTime(id) < ConsistencyDelay}
        IN  /\ Dom(pureCall.out.metas) = Dom(pureCall.metas) \ gone
            /\ pureCall.out.toofresh = Cardinality(gone)
\* What the filter does: the age is the unsigned difference, so a block whose
\* embedded time is later than the clock has a huge age and is kept
C23_UnsignedAge ==
    Applied("ConsistencyDelayFilter") =>
        LET gone == {id \in Dom(pureCall.metas) :
                        /\ pureCall.metas[id].source \notin ExemptSources
                        /\ pureCall.now >= IDTime(id)
                        /\ pureCall.now - IDTime(id) < ConsistencyDelay}
        IN  /\ Dom(pureCall.out.metas) = Dom(pureCall.metas) \ gone
            /\ \A id \in Dom(pureCall.out.metas) : pureCall.out.metas[id] = pureCall.metas[id]
            /\ pureCall.out.toofresh = Cardinality(gone)

\* The deletion mark of block id in the bucket of the call, if it parses
ParsedMark(id) ==
    IF pureCall.bkt[FetchTenant][id].mark.kind = "mark"
    THEN pureCall.bkt[FetchTenant][id].mark ELSE NoMark
\* C24: after an IgnoreDeletionMarkFilter.Filter call that returns no error,
\* DeletionMarkBlocks() holds exactly the input metas with a parseable deletion
\* mark, whatever its age; the metas removed are exactly those whose mark is
\* older than the delay (now - deletionTime > delay), so a marked block within
\* the delay stays; marked-for-deletion counts each removal once.
C24_MarksAndRemovals ==
    (Applied("IgnoreDeletionMarkFilter") /\ ~pureCall.out.err) =>
        LET marked == {id \in Dom(pureCall.metas) : ParsedMark(id) # NoMark}
            gone == {id \in marked :
                        pureCall.now - ParsedMark(id).deletionTime > DeletionMarkDelay}
        IN  /\ pureCall.out.marks =
                   [id \in IDs |-> IF id \in marked THEN ParsedMark(id) ELSE NoMark]
            /\ pureCall.out.metas =
                   [id \in IDs |-> IF id \in gone THEN NoMeta ELSE pureCall.metas[id]]
            /\ pureCall.out.marked = Cardinality(gone)
\* A call without error removed a block with an old mark and kept a block whose
\* mark is exactly as old as the delay, recording both marks
C24_Witness ==
    /\ Applied("IgnoreDeletionMarkFilter") /\ ~pureCall.out.err
    /\ Dom(pureCall.metas) = IDs /\ Dom(pureCall.out.metas) = {2}
    /\ ParsedMark(1) # NoMark /\ ParsedMark(2) # NoMark
    /\ pureCall.now - ParsedMark(2).deletionTime = DeletionMarkDelay
    /\ pureCall.out.marks[1] # NoMark /\ pureCall.out.marks[2] # NoMark

\* C29 as stated: when a deletion-mark probe fails with an error other than
\* not-found or unmarshal, Filter reports the error and still installs the mark
\* map built from the probes that succeeded.
C29_Original ==
    (Applied("IgnoreDeletionMarkFilter") /\ pureCall.failed # {}) =>
        /\ pureCall.out.err
        /\ pureCall.out.marks =
               [id \in IDs |-> IF id \in pureCall.probed \ pureCall.failed
                               THEN ParsedMark(id) ELSE NoMark]
\* C29 amended: such a call reports the error and installs nothing:
\* DeletionMarkBlocks() keeps the map it held before the call; the metas whose
\* expired mark was read before the failure are still removed and counted.
C29_FailedProbeKeepsMap ==
    (Applied("IgnoreDeletionMarkFilter") /\ pureCall.failed # {}) =>
        LET gone == {id \in pureCall.probed \ pureCall.failed :
                        /\ ParsedMark(id) # NoMark
                        /\ pureCall.now - ParsedMark(id).deletionTime > DeletionMarkDelay}
        IN  /\ pureCall.out.err
            /\ pureCall.out.marks = deletionMarkMap
            /\ Dom(pureCall.out.metas) = Dom(pureCall.metas) \ gone
            /\ pureCall.out.marked = Cardinality(gone)
\* One probe failed after another had read an expired mark: the block of the
\* latter is removed and its mark is not in the installed map
C29_Witness ==
    /\ Applied("IgnoreDeletionMarkFilter") /\ pureCall.failed = {2} /\ pureCall.probed = IDs
    /\ ParsedMark(1) # NoMark /\ 1 \notin Dom(pureCall.out.metas)
    /\ pureCall.out.err /\ pureCall.out.marks[1] = NoMark

\* The level-1 metas of the job of the call, and those uploaded within the wait
\* period
Level1(job) == {job.metas[i] : i \in {j \in DOMAIN job.metas : job.metas[j].level = 1}}
TooFreshMetas ==
    {m \in Level1(pureCall.job) :
        pureCall.now - pureCall.lastModified[m.ulid] < pureCall.waitPeriod}
\* C25: with waitPeriod = 0 jobWaitPeriodElapsed returns (true, nil, nil) for
\* every job, whatever the upload times and whatever the bucket would answer.
C25_Disabled ==
    (Applied("Job") /\ pureCall.waitPeriod = 0) =>
        pureCall.out = GateResult(TRUE, NoMeta, FALSE, <<>>)
\* The gate was asked with the wait period disabled about a job of two level-1
\* blocks, one just uploaded and one whose probe would fail
C25_Witness ==
    /\ Applied("Job") /\ pureCall.waitPeriod = 0 /\ Len(pureCall.job.metas) = 2
    /\ Level1(pureCall.job) = {JobMeta(1, 1), JobMeta(2, 1)}
    /\ pureCall.lastModified[1] = pureCall.now /\ pureCall.attrsErr = {2}

\* C26: with waitPeriod > 0 and no probe error the gate returns (true, nil, nil)
\* exactly when no level-1 meta of the job has now - lastModified < waitPeriod,
\* and otherwise (false, m, nil) for a level-1 meta m that is too fresh; the
\* metas of level > 1 do not affect the result, whenever they were uploaded and
\* whatever their probe would answer.
C26_Level1Decides ==
    (Applied("Job") /\ pureCall.waitPeriod > 0 /\ ~pureCall.out.err) =>
        /\ (pureCall.out.elapsed /\ pureCall.out.meta = NoMeta) <=> (TooFreshMetas = {})
        /\ TooFreshMetas # {} =>
              ~pureCall.out.elapsed /\ pureCall.out.meta \in TooFreshMetas
        /\ \A lm \in JobTimes, ae \in SUBSET IDs :
              (\A m \in Level1(pureCall.job) :
                    /\ lm[m.ulid] = pureCall.lastModified[m.ulid]
                    /\ (m.ulid \in ae) = (m.ulid \in pureCall.attrsErr)) =>
                 LET o == jobWaitPeriodElapsed(pureCall.job, pureCall.waitPeriod, lm,
                                               ae, pureCall.now)
                 IN  /\ o.elapsed = pureCall.out.elapsed
                     /\ o.meta = pureCall.out.meta
                     /\ o.err = pureCall.out.err
\* A job of a compactor output uploaded just now, whose probe would fail, and of
\* a level-1 block older than the wait period was found ready
C26_Witness ==
    /\ Applied("Job") /\ pureCall.waitPeriod = 1
    /\ pureCall.job.metas = <<JobMeta(1, 2), JobMeta(2, 1)>>
    /\ pureCall.lastModified[1] = pureCall.now /\ pureCall.attrsErr = {1}
    /\ pureCall.lastModified[2] < pureCall.now
    /\ pureCall.out.elapsed
\* A job was found not ready because of its level-1 block
C26_WitnessFresh ==
    /\ Applied("Job") /\ pureCall.waitPeriod > 0
    /\ pureCall.job.metas = <<JobMeta(1, 1), JobMeta(2, 1)>>
    /\ pureCall.out = GateResult(FALSE, JobMeta(2, 1), FALSE, <<1, 2>>)

\* C27: when the attributes probe of a level-1 block fails, the gate returns
\* elapsed = false, the meta whose probe failed and the error, and that probe is
\* the last one made.
C27_ProbeError ==
    Applied("Job") =>
        \A i \in DOMAIN pureCall.out.probed :
            pureCall.out.probed[i] \in pureCall.attrsErr =>
                /\ ~pureCall.out.elapsed /\ pureCall.out.err
                /\ pureCall.out.meta \in Level1(pureCall.job)
                /\ pureCall.out.meta.ulid = pureCall.out.probed[i]
                /\ i = Len(pureCall.out.probed)
\* The probe of the second level-1 block failed after the first was found old
\* enough
C27_Witness ==
    /\ Applied("Job") /\ pureCall.waitPeriod > 0
    /\ pureCall.job.metas = <<JobMeta(1, 1), JobMeta(2, 1)>>
    /\ pureCall.attrsErr = {2}
    /\ pureCall.out = GateResult(FALSE, JobMeta(2, 1), TRUE, <<1, 2>>)
\* The probe of the first block failed and the second, a level-1 block too, was
\* not probed
C27_WitnessStops ==
    /\ Applied("Job") /\ pureCall.waitPeriod > 0
    /\ pureCall.job.metas = <<JobMeta(1, 1), JobMeta(2, 1)>>
    /\ pureCall.attrsErr = {1, 2}
    /\ pureCall.out = GateResult(FALSE, JobMeta(1, 1), TRUE, <<1>>)
\* A probe failed although an earlier block had been found too fresh: the scan
\* ends at the first block that is too fresh, so this state does not occur
C27_ErrorAfterFresh ==
    /\ Applied("Job") /\ pureCall.out.err
    /\ \E i \in DOMAIN pureCall.out.probed :
          /\ i < Len(pureCall.out.probed)
          /\ pureCall.now - pureCall.lastModified[pureCall.out.probed[i]]
                < pureCall.waitPeriod

\* C28: after one or more AppendMeta calls MinCompactionLevel() is the minimum
\* compaction level of the metas appended so far, in whatever order they came.
C28_MinLevel ==
    (pureCall.fn = "Job" /\ pureCall.job.metas # <<>>) =>
        LET lvls == {pureCall.job.metas[i].level : i \in DOMAIN pureCall.job.metas}
        IN  /\ MinCompactionLevel(pureCall.job) \in lvls
            /\ \A l \in lvls : MinCompactionLevel(pureCall.job) <= l
\* A level-1 meta was appended first and a meta of the highest level after it
C28_Witness ==
    /\ pureCall.fn = "Job"
    /\ Len(pureCall.job.metas) = 2
    /\ pureCall.job.metas[1].level = 1 /\ pureCall.job.metas[2].level = MaxLevel
    /\ MinCompactionLevel(pureCall.job) = 1

C30_Step ==
    \A r \in Requests :
        (ReqStep(r) /\ req'[r].op = "file" /\ req'[r].len \in {0, UnknownLength}) =>
            /\ bkt' = bkt
            /\ req[r].pc = "idle" => Answered(r, {400})
\* C30: a file request whose body is empty or whose content length is unknown
\* is answered 400 and uploads nothing.
C30_Original == [][C30_Step]_vars
\* What the handler does reject: a content length of 0
C30_EmptyStep ==
    \A r \in Requests :
        (ReqStep(r) /\ req'[r].op = "file" /\ req'[r].len = 0) =>
            bkt' = bkt /\ Answered(r, {400})
C30_EmptyRejected == [][C30_EmptyStep]_vars
\* A file of unknown content length was stored and answered 200
C30_UnknownLengthStored ==
    \E r \in Requests : \E t \in Tenants : \E id \in IDs :
        /\ req[r].op = "file" /\ req[r].pc = "idle" /\ req[r].status = 200
        /\ req[r].len = UnknownLength /\ req[r].tenant = t /\ req[r].id = id
        /\ req[r].path \in bkt[t][id].files

\* The labels sanitizeMeta does not reject: those it preserves and those it strips
AcceptedLabels == RecognizedLabels \cup {IngesterIDExternalLabel, DeprecatedShardIDExternalLabel}
\* The begin in slot r carries a meta with a label outside the recognized set
RejectedBegin(r) ==
    /\ req[r].op = "begin" /\ req[r].meta \notin {NoMeta, Malformed}
    /\ ~(DOMAIN req[r].meta.labels \subseteq AcceptedLabels)
C31_OriginalStep ==
    \A r \in Requests :
        (req[r].pc # "idle" /\ RejectedBegin(r) /\ ReqStep(r)) =>
            /\ bkt' = bkt
            /\ req'[r].pc = "idle" => req'[r].status = 400
\* C31 as stated: a begin whose meta carries a label outside the recognized set
\* is answered 400 and stages nothing.
C31_Original == [][C31_OriginalStep]_vars
C31_Step ==
    \A r \in Requests :
        (req[r].pc # "idle" /\ RejectedBegin(r) /\ ReqStep(r)) =>
            /\ bkt' = bkt
            /\ req[r].pc = "stage" => Answered(r, {400})
            /\ req[r].pc = "exists" =>
                  \/ req'[r].pc = "stage"
                  \/ Answered(r, {500})
                  \/ /\ Answered(r, {409})
                     /\ bkt[req[r].tenant][req[r].id].meta # NoObj
\* C31: no step of a begin whose meta carries a label outside the recognized set
\* creates or changes an object, meta.json.temp included; once the existence
\* check has found no meta.json the begin is answered 400, while a block that is
\* already complete answers 409 and a failed existence check 500 before the body
\* is looked at.
C31_RejectedStagesNothing == [][C31_Step]_vars
\* A begin with the label foo was answered 400 for a block that has no
\* descriptor at all
C31_Witness ==
    /\ RejectedBegin(1) /\ req[1].pc = "idle" /\ req[1].status = 400
    /\ bkt[req[1].tenant][req[1].id].temp = NoObj
    /\ bkt[req[1].tenant][req[1].id].meta = NoObj
\* The same begin answered 409
C31_WitnessConflict ==
    RejectedBegin(1) /\ req[1].pc = "idle" /\ req[1].status = 409

C32_OriginalStep ==
    \A c \in Callers :
        (pc[c] = "leading" /\ pc'[c] = "release" /\ ctxDone[c]) =>
            \A p \in Callers : (p = c \/ pc[p] = "waiting") => got'[p].err = "ctx"
\* C32 as stated: a cancellation of the first caller's context while the
\* coalesced scan is in flight makes every caller of that scan receive the
\* cancellation error.
C32_Original == [][C32_OriginalStep]_vars
\* A scan ends in the context's error only when the context of the caller that
\* started it is cancelled, whatever the waiting callers did with theirs
C32_OnlyFirstAborts ==
    \A c \in Callers : iterSt[c] = "ctx" => (pc[c] = "leading" /\ ctxDone[c])
C32_Step ==
    \A c \in Callers :
        /\ (pc[c] = "leading" /\ pc'[c] = "release" /\ iterSt[c] = "ctx") =>
              \A p \in Callers : (p = c \/ pc[p] = "waiting") =>
                  got'[p].err = "ctx" /\ pc'[p] \in {"release", "have"}
        /\ (pc[c] = "have" /\ got[c].err = "ctx" /\ pc'[c] # "have") =>
              /\ pc'[c] = "returned"
              /\ ret'[c].err = "ctx" /\ ~ret'[c].has
\* C32: the scan watches the context of the caller that started it and no
\* other: a cancelled context of a waiting caller never ends the scan, and when
\* the first caller's cancellation stops the bucket iteration every caller
\* coalesced on the scan receives the context's error and returns it with no
\* maps, whether its own context is live or not.
C32_FirstCallerDrives == []C32_OnlyFirstAborts /\ [][C32_Step]_vars
\* Caller 2 joined the scan of caller 1 and returned the context's error with
\* its own context live
C32_Witness ==
    /\ Returned(2) /\ ret[2].err = "ctx" /\ ~ctxDone[2]
    /\ hist.iterEnd[1] = "ctx" /\ hist.iterEnd[2] = "off"
\* Caller 2 cancelled its context while waiting and still returned the maps of
\* caller 1's scan
C32_WitnessJoinerCancelled ==
    /\ Returned(2) /\ ret[2].has /\ ret[2].err = "none" /\ ctxDone[2]
    /\ ret[2].metas[1] # NoMeta /\ hist.iterEnd[2] = "off"

\* eg.Wait() returns in this step
WaitReturns(c) == pc[c] = "leading" /\ pc'[c] = "release"
C33_Step ==
    \A c \in Callers :
        WaitReturns(c) =>
            /\ chClosed[c] /\ ch[c] = <<>>
            /\ \A w \in Workers : w <= concurrency => wk[c][w].pc = "exit"
\* C33: under fair scheduling every Fetch that was called returns, also when
\* its context is cancelled while the scheduler waits to send on a full channel
\* or while workers are loading; when eg.Wait() returns the channel is closed
\* and empty and every worker has left its loop.
C33_Terminates ==
    /\ \A c \in {1} : (InFetch(c) ~> Returned(c))
    /\ [][C33_Step]_vars
\* The context was cancelled while the scheduler waited to send block 2 on the
\* full channel and a sync ended by the cancellation has returned
C33_WitnessBlocked ==
    /\ ctxDone[1] /\ iterSt[1] = "run" /\ iterPos[1] = 2
    /\ Len(ch[1]) = concurrency /\ ~chClosed[1]
\* A Fetch returned after its cancellation ended the iteration while a block
\* had been handed to a worker, which loaded it
C33_Witness ==
    /\ Returned(1) /\ hist.iterEnd[1] = "ctx" /\ hist.cancelled[1]
    /\ iterSt[1] = "off" /\ \A w \in Workers : wk[1][w] = IdleWorker

\* The step in which fetchMetadata assigns f.cached
Replaces(c) == WaitReturns(c) /\ iterSt[c] = "ok" /\ resp[c].metaErrs = {}
\* A worker is inside its loop: it may be in loadMeta, reading f.cached
Reading(c, w) == wk[c][w].pc \in {"recv", "exists", "get"}
C34_Step ==
    /\ \A c \in Callers :
          Replaces(c) =>
              /\ cached' = resp[c].metas
              /\ \A p \in Callers : \A w \in Workers : ~Reading(p, w)
    /\ cached' # cached => \E c \in Callers : Replaces(c)
    /\ \A c \in Callers : \A w \in Workers :
          (wk[c][w].pc = "exists" /\ wk'[c][w].pc # "exists") =>
              /\ cached' = cached
              /\ LET id == wk[c][w].id IN
                 resp'[c].metas[id] # resp[c].metas[id] =>
                     resp'[c].metas[id] = cached[id]
\* C34: f.cached changes only in the step of fetchMetadata that assigns the
\* map built from the finished scan, as a whole; no worker of any caller is in
\* its load loop at that step, so the lookup in loadMeta, which takes no lock,
\* reads the map as the previous replacement left it.
C34_ReplacedWhole == [][C34_Step]_vars
\* The cache holds block 1 from a finished scan while the worker of a later
\* scan is in loadMeta and another caller waits for that scan
C34_Witness ==
    \E c \in Callers :
        /\ pc[c] = "leading" /\ wk[c][1].pc = "exists" /\ wk[c][1].id = 1
        /\ cached[1] # NoMeta
        /\ \E p \in Callers \ {c} : pc[p] = "waiting"

\* A call of GetChunks returns in this step
GetChunksReturns == streamer'.want = streamer.want + 1
C35_Step ==
    (GetChunksReturns /\ streamer.errSent) => streamer'.last.res # "chunks"
\* C35: once an error other than end-of-stream has occurred in the goroutine,
\* the next call of GetChunks returns an error, whatever is still buffered.
C35_Original == [][C35_Step]_vars
\* With no series left in the buffer the call after the error does fail
C35_EmptyBufferStep ==
    (GetChunksReturns /\ streamer.errSent /\ streamer.buffer = <<>>) =>
        streamer'.last.res # "chunks"
C35_EmptyBufferFails == [][C35_EmptyBufferStep]_vars
\* GetChunks returned the chunks of series 0 after the stream had failed
C35_ChunksAfterError ==
    /\ streamer.errSent /\ streamer.last = [index |-> 0, res |-> "chunks"]
    /\ streamer.gpc = "done"

C39_Step ==
    (GetChunksReturns /\ streamer.clean /\ streamer.want < streamer.n) =>
        streamer'.last = [index |-> streamer.want, res |-> "chunks"]
\* C39: when the stream delivers n series and then ends with io.EOF, the calls
\* GetChunks(0), ..., GetChunks(n-1) made in this order each return the chunks
\* of their series without error.
C39_Original == [][C39_Step]_vars
\* GetChunks(0) failed on a stream of one good series that ended with io.EOF,
\* with the series still in the buffer
C39_FailedOnCleanStream ==
    /\ streamer.clean /\ streamer.n = 1 /\ ~streamer.errSent
    /\ streamer.last = [index |-> 0, res |-> "failed"] /\ streamer.buffer = <<0>>

\* The indexes of the sub-requests in a list of answers
Range(q) == {q[i] : i \in DOMAIN q}
\* No feeder or worker goroutine waits on a channel
NoneBlocked ==
    /\ doReq.feeder = "done" \/ doReq.next > doReq.n
    /\ \A w \in DoWorkers : doReq.wk[w].pc \in {"off", "recv", "exit"}
AllExited ==
    /\ doReq.pc = "returned" /\ doReq.feeder = "done"
    /\ \A w \in DoWorkers : doReq.wk[w].pc \in {"off", "exit"}
C40_Safe ==
    doReq.pc # "none" =>
        /\ \A i \in 1..doReq.n : doReq.handed[i] <= 1
        /\ doReq.pc = "returned" =>
              /\ \A i \in 1..doReq.n : doReq.handed[i] = 1
              /\ NoneBlocked
              /\ doReq.errs = <<>> =>
                    /\ doReq.firstErr = 0
                    /\ Len(doReq.resps) = doReq.n /\ Range(doReq.resps) = 1..doReq.n
              /\ doReq.errs # <<>> => doReq.firstErr = Head(doReq.errs)
\* C40: doRequests returns for every list of sub-requests and every pattern of
\* downstream failures; when it returns every sub-request has been handed to
\* downstream exactly once and no feeder or worker waits on a channel, all of
\* them exit, the answer holds one response per sub-request if none failed and
\* the first error received otherwise.
C40_Terminates == []C40_Safe /\ (doReq.pc = "start" ~> AllExited)
\* Three sub-requests on two workers, the second and then the third failed:
\* doRequests returned the error of the second with one response
C40_Witness ==
    /\ doReq.pc = "returned" /\ doReq.n = 3 /\ doReq.parallelism = 2
    /\ doReq.errs = <<2, 3>> /\ doReq.firstErr = 2 /\ doReq.resps = <<1>>
\* Three sub-requests answered out of order with no failure
C40_WitnessAll ==
    /\ doReq.pc = "returned" /\ doReq.fails = {} /\ doReq.resps = <<2, 1, 3>>

(* ------------------------------- C36 ----------------------------------- *)
\* The directories the scan of caller c's Fetch discovered
Discovered(c) == {id \in IDs : outcome[c][id] # "none"}
BinSum(g) == g.loaded + g.toofresh + g.marked + g.nometa + g.corrupted + g.failed
\* The step in which the Fetch sets the loaded gauge, submits and returns
C36_Step ==
    \A c \in {1} : SubmitStep(c) =>
        /\ Cardinality(Discovered(c)) = BinSum(published')
        /\ Cardinality(PartialIDs(ret'[c].partial))
             = published'.nometa + published'.corrupted
\* C36: when a Fetch with the chain [ConsistencyDelayFilter,
\* IgnoreDeletionMarkFilter] publishes its gauges, the number of directories its
\* scan discovered equals loaded + too-fresh + marked-for-deletion + no-meta-json
\* + corrupted-meta-json + failed, and the partial map it returns has
\* no-meta-json + corrupted-meta-json entries.
C36_BinsAddUp == [][C36_Step]_vars
\* A Fetch published: one block is too fresh or marked, the other failed or has
\* no readable meta.json
C36_Witness ==
    /\ Returned(1) /\ ret[1].has
    /\ Cardinality(Discovered(1)) = NumBlocks
    /\ published.toofresh + published.marked = 1
    /\ published.failed + published.nometa + published.corrupted = NumBlocks - 1
C36_WitnessAllBins ==
    /\ Returned(1) /\ ret[1].has
    /\ published.loaded = 1 /\ published.corrupted = 1

(* ------------------------------- C37 ----------------------------------- *)
\* Request r stores an object under block id of tenant t in this step
StoresFile(r, t, id) ==
    /\ req[r].op = "file" /\ req[r].pc = "put" /\ req[r].tenant = t /\ req[r].id = id
    /\ Answered(r, {200})
C37_Step ==
    \A t \in Tenants : \A id \in IDs :
        bkt[t][id].meta # NoObj =>
            /\ bkt'[t][id].meta = bkt[t][id].meta
            /\ bkt'[t][id].files = bkt[t][id].files
            /\ \A r \in Requests : ~StoresFile(r, t, id)
\* C37 as stated: once <BlockID>/meta.json exists, no begin, uploadFile or commit
\* request creates or changes meta.json, index or a chunks file under that
\* BlockID; only meta.json.temp may be deleted.
C37_Original == [][C37_Step]_vars

(* ------------------------------- C38 ----------------------------------- *)
\* Caller c's filter deletes from its map, or caller c deletes from the map it
\* was returned, in this step
FilterDeletes(c) == pc[c] = "filter" /\ fi'[c] = fi[c] + 1
DeletesReturned(c) == pc[c] = "returned" /\ pc'[c] = "returned" /\ ret'[c] # ret[c]
C38_Step ==
    \A c \in Callers :
        (FilterDeletes(c) \/ DeletesReturned(c)) =>
            /\ \A p \in Callers \ {c} :
                   metas'[p] = metas[p] /\ ret'[p] = ret[p] /\ got'[p] = got[p]
            /\ got'[c] = got[c] /\ sfVal' = sfVal
            /\ cached' = cached
C38_WitnessFiltering ==
    \E c \in Callers : \E p \in hist.shares[c] \ {c} :
        /\ pc[c] = "filter" /\ fi[c] > Len(filters) /\ metas[c][1] = NoMeta
        /\ pc[p] = "filter" /\ fi[p] = 1 /\ metas[p][1] # NoMeta
        /\ deletionMarkMap[1] # NoMark
====
